---- MODULE Spec2Model ----
(***************************************************************************)
(* CyberSentinelAI: the classification-and-response core.                  *)
(*                                                                         *)
(*   ThreatDetector        src/core/threatDetector.js                      *)
(*   SecurityRulesEngine   src/tests/api.test.js (lines 180-461)           *)
(*   AnomalyDetector       src/ai/anomalyDetector.js                       *)
(*   BehavioralAnalytics   src/unnamed/part_001                            *)
(*   ExplainabilityEngine  src/unnamed/part_000                            *)
(*   InfrastructureProtection, ConfigManager   src/core/logAnalyzer.js     *)
(*   IncidentResponseOrchestrator  src/core/incidentResponseOrchestrator.js*)
(*   CyberSentinelAI (start/stop/timers)       src/index.js                *)
(*                                                                         *)
(* Eleven specifications share the operators below:                        *)
(*   Spec       one ThreatDetector.classifyThreats call at a time, with    *)
(*              the rule administration surface                            *)
(*   SpecRules  the rule administration surface and direct applyRules calls*)
(*   SpecRun    ThreatDetector.run instances interleaving at their awaits  *)
(*              over the threats and incidents tables                      *)
(*   SpecSched  CyberSentinelAI.start / startMonitoring / stop and the     *)
(*              four interval timers                                       *)
(*   SpecScan   one scheduled scan (runScan) under a configuration         *)
(*   SpecAsset  InfrastructureProtection.assessThreatToAsset calls         *)
(*   SpecProfile  BehavioralAnalytics.updateBaselineProfile calls          *)
(*   SpecExplain  ExplainabilityEngine.explainPrediction calls             *)
(*   SpecProtect  protectCriticalAssets and the attachment of its actions  *)
(*   SpecFeatures ExplainabilityEngine.explainFeatureContribution calls    *)
(*   SpecRunSequential  ThreatDetector.run instances one after another     *)
(***************************************************************************)
EXTENDS Integers, Sequences, FiniteSets, TLC

\* ------------------------------------------------------------------------
\* Bounds of the model (not program constants)
\* ------------------------------------------------------------------------
\* longest batch handed to classifyThreats in Spec
MaxBatch == 2
\* rule administration calls (addRule, updateRule, ...) in one behaviour
MaxAdminOps == 1
\* direct applyRules calls recorded in one behaviour
MaxRuleCalls == 2
\* failures of the store and of the collectors in one behaviour of SpecRun
MaxFaults == 2
\* the clock of the store stops here
MaxClock == 1
\* times one interval timer fires in one behaviour of SpecSched
MaxFires == 1
\* updateBaselineProfile calls made in all
MaxObserved == 102
\* explainPrediction calls made in all, and those with the second first octet
MaxExplained == 1002
MaxOtherOctet == 2
\* longest batch handed to protectCriticalAssets
MaxProtected == 3

\* Longest feature vector handed to explainFeatureContribution.
MaxFeatures == 6

\* Largest limit handed to getExplanations.
MaxLimit == 2

\* The cap of profile.patterns (part_001:53).
MaxPatterns == 100
\* the cap of predictionExplanations (part_000:30) and the counts above which
\* a source octet, a port, a threat type are reported as biased (194, 209, 224)
MaxExplanations == 1000
SourceBiasAbove == 50
PortBiasAbove == 100
TypeBiasAbove == 80

\* The window of getPersistedThreats, datetime('now', '-1 minute'), in ticks
\* of the clock: a tick is one minute.
MinuteTicks == 1

\* explainFeatureContribution: a feature above 0.7 has high impact, one above
\* 0.4 medium impact (feature values are in tenths); the first 5
\* contributions are kept.
HighImpactAbove == 7
MediumImpactAbove == 4
TopContributors == 5

\* generateTransparencyReport lists a counter above 50, whatever its kind.
ReportBiasAbove == 50

\* ------------------------------------------------------------------------
\* Values
\* ------------------------------------------------------------------------
Severities == {"Low", "Medium", "High", "Critical"}

\* The order Low < Medium < High < Critical the claims speak of; a severity
\* outside the four levels ranks below all of them.
SeverityRank(s) ==
    CASE s = "Low" -> 1
      [] s = "Medium" -> 2
      [] s = "High" -> 3
      [] s = "Critical" -> 4
      [] OTHER -> 0

\* JavaScript undefined, for a field a candidate does not carry.
Undefined == "<undefined>"

\* A port is a number, a numeric string (the network collector copies the
\* text of the netstat column, networkMonitor.js:47-49,73) or null/undefined.
NumPort(n) == [kind |-> "number", val |-> n]
StrPort(n) == [kind |-> "string", val |-> n]
NoPort == [kind |-> "null", val |-> 0]

\* parseInt(port): the number for both forms, NaN (here -1) for null.
ParseInt(port) == IF port.kind = "null" THEN -1 ELSE port.val

\* port === n (strict equality: a numeric string never equals a number).
StrictEqNum(port, n) == port.kind = "number" /\ port.val = n

\* The descriptions that occur in the model, and for each the keywords of
\* the rule catalog that its lower-cased text includes.
DescConn == "Connection to suspicious port 22 from 10.0.0.5"
DescLog == "Suspicious keyword 'attack' found in log: unauthorized admin login"
DescRepeated == "Repeated error messages: data transfer failed"
DescOk == "ok"
DescSql == "SQL injection attack drops admin data after port scan"

DescWords(d) ==
    CASE d = DescConn -> {"port"}
      [] d = DescLog -> {"admin"}
      [] d = DescRepeated -> {"data", "transfer"}
      [] d = DescOk -> {}
      [] d = DescSql -> {"sql", "injection", "drop", "admin", "data", "port", "scan"}
      [] OTHER -> {}

\* threat.description.toLowerCase().includes(kw); only for a defined description.
Includes(d, kw) == kw \in DescWords(d)

\* A raw candidate as a collector (or a caller of classifyThreats) hands it in.
\* id = 0 stands for "no id yet" (assigned by the threats table on insert).
Candidate(type, severity, description, source_ip, protocol, port) ==
    [ id |-> 0, type |-> type, severity |-> severity, description |-> description,
      source_ip |-> source_ip, protocol |-> protocol, port |-> port,
      aiAnomaly |-> FALSE, isBehavioralAnomaly |-> FALSE,
      priority |-> Undefined, appliedRules |-> << >>,
      aiPrediction |-> Undefined, recommendation |-> Undefined,
      explainability |-> Undefined ]

\* NetworkMonitor.detectThreats: an ESTABLISHED connection to a suspicious port.
NetworkThreat ==
    Candidate("Suspicious Connection", "High", DescConn, "10.0.0.5", "TCP", StrPort(22))

\* LogAnalyzer.detectThreats: keyword hit, and repeated errors.
LogAnomalyThreat ==
    Candidate("Log Anomaly", "Medium", DescLog, "192.168.1.7", "N/A", NoPort)

RepeatedErrorsThreat ==
    Candidate("Repeated Errors", "Low", DescRepeated, "192.168.1.7", "N/A", NoPort)

\* Candidates a caller of classifyThreats may pass (the input boundary asks
\* for type, severity and description at least; the last one lacks description).
BenignThreat ==
    Candidate("Benign", "Low", DescOk, Undefined, Undefined, NumPort(9999))

DDoSThreat ==
    Candidate("DDoS", "High", DescSql, "10.0.0.5", "TCP", NumPort(3306))

MalformedThreat ==
    Candidate("Intrusion", "Medium", Undefined, "10.0.0.5", "TCP", NumPort(22))

\* The candidates handed to classifyThreats in Spec.
Candidates == { NetworkThreat, LogAnomalyThreat, BenignThreat, MalformedThreat }

\* All sequences over S of length 0..n.
SeqUpTo(S, n) == UNION { [1..k -> S] : k \in 0..n }

\* ------------------------------------------------------------------------
\* SecurityRulesEngine (src/tests/api.test.js:180-461)
\* ------------------------------------------------------------------------
\* A rule's condition is a JavaScript function; the model names each
\* predicate of the catalog, plus the predicates a caller can register
\* through addRule / createCustomRule.
RuleAction(type, param) == [type |-> type, param |-> param]

Rule(id, cond, action) == [id |-> id, cond |-> cond, action |-> action, enabled |-> TRUE]

\* initializeDefaultRules: the eight rules in registration order.
DefaultRules ==
    << Rule("rule_ddos_detection", "ddos", RuleAction("escalate", "Critical")),
       Rule("rule_privilege_escalation", "privilege", RuleAction("alert", "security_team")),
       Rule("rule_data_exfiltration", "data", RuleAction("isolate", "3600")),
       Rule("rule_brute_force", "brute", RuleAction("block_ip", "86400")),
       Rule("rule_malware_signature", "malware", RuleAction("quarantine", "immediate")),
       Rule("rule_sql_injection", "sql", RuleAction("alert", "High")),
       Rule("rule_port_scanning", "portscan", RuleAction("monitor", "1800")),
       Rule("rule_critical_service", "critical", RuleAction("increase_priority", "critical")) >>

DefaultRuleIds == { DefaultRules[i].id : i \in 1..Len(DefaultRules) }

\* rule.condition(threat): "true", "false", or "throw" when the function
\* raises. random is the outcome of Math.random() < 0.3 for this evaluation.
\* Every description predicate calls threat.description.toLowerCase() first,
\* which raises a TypeError on a threat without description.
EvalCondition(cond, threat, random) ==
    LET d == threat.description
        descCond(hit) == IF d = Undefined THEN "throw" ELSE IF hit THEN "true" ELSE "false"
        plain(hit) == IF hit THEN "true" ELSE "false"
    IN  CASE cond = "ddos" ->
               plain(threat.type = "Suspicious Connection" /\ threat.severity = "High" /\ random)
          [] cond = "privilege" ->
               descCond(Includes(d, "privilege") \/ Includes(d, "sudo") \/ Includes(d, "admin"))
          [] cond = "data" ->
               descCond(Includes(d, "data") \/ Includes(d, "exfiltrat") \/ Includes(d, "transfer"))
          [] cond = "brute" ->
               plain(StrictEqNum(threat.port, 22) \/ StrictEqNum(threat.port, 3389)
                     \/ StrictEqNum(threat.port, 5900))
          [] cond = "malware" ->
               descCond(\E k \in {"trojan", "ransomware", "backdoor", "worm", "virus"} : Includes(d, k))
          [] cond = "sql" ->
               descCond(\E k \in {"sql", "injection", "union", "select", "drop"} : Includes(d, k))
          [] cond = "portscan" ->
               descCond(Includes(d, "port") /\ Includes(d, "scan"))
          [] cond = "critical" ->
               plain(ParseInt(threat.port) \in {443, 80, 3306, 5432, 27017})
          \* addRule({condition: t => t.severity === 'Critical', ...})
          [] cond = "custom_critical" -> plain(threat.severity = "Critical")
          \* createCustomRule(name, "true", ...)
          [] cond = "custom_true" -> "true"
          \* createCustomRule(name, "threat.meta.flagged", ...): raises on every threat
          [] cond = "custom_throws" -> "throw"
          [] OTHER -> "false"

\* executeAction(action, threat).modifications merged into the threat:
\* escalate assigns action.newSeverity, increase_priority assigns the level,
\* every other action type modifies nothing.
ExecuteAction(action, threat) ==
    CASE action.type = "escalate" -> [threat EXCEPT !.severity = action.param]
      [] action.type = "increase_priority" -> [threat EXCEPT !.priority = action.param]
      [] OTHER -> threat

\* The applied-rule entry recorded for a matching rule.
AppliedEntry(rule) == [ruleId |-> rule.id, action |-> rule.action.type]

\* executeAction(rule.action, threat) raises a TypeError at `switch
\* (action.type)` when the rule's action is null (updateRule assigns
\* whatever it is given); a well-formed action never raises.
NullAction == [type |-> Undefined, param |-> Undefined]

ExecuteRaises(action) == action = NullAction

\* A rule whose condition or action raises ends the rule loop of the threat.
RECURSIVE ApplyRulesFromStopAtThrow(_, _, _, _)
ApplyRulesFromStopAtThrow(rs, i, threat, random) ==
    IF i > Len(rs) THEN threat
    ELSE IF ~rs[i].enabled THEN ApplyRulesFromStopAtThrow(rs, i + 1, threat, random)
    ELSE IF EvalCondition(rs[i].cond, threat, random) = "throw" THEN threat
    ELSE IF EvalCondition(rs[i].cond, threat, random) = "false"
         THEN ApplyRulesFromStopAtThrow(rs, i + 1, threat, random)
    ELSE IF ExecuteRaises(rs[i].action) THEN threat
    ELSE ApplyRulesFromStopAtThrow(rs, i + 1,
             [ExecuteAction(rs[i].action, threat) EXCEPT
                 !.appliedRules = Append(@, AppliedEntry(rs[i]))],
             random)

\* The inner loop of applyRules over this.rules from position i on, for one
\* threat: a disabled rule is skipped, a raising condition or action is caught
\* and the rule skipped, a matching rule modifies the threat and records its
\* entry.
RECURSIVE ApplyRulesFrom(_, _, _, _)
ApplyRulesFrom(rs, i, threat, random) ==
    IF i > Len(rs) THEN threat
    ELSE IF ~rs[i].enabled THEN ApplyRulesFrom(rs, i + 1, threat, random)
    ELSE IF /\ EvalCondition(rs[i].cond, threat, random) = "true"
            /\ ~ExecuteRaises(rs[i].action)
         THEN ApplyRulesFrom(rs, i + 1,
                  [ExecuteAction(rs[i].action, threat) EXCEPT
                      !.appliedRules = Append(@, AppliedEntry(rs[i]))],
                  random)
         ELSE ApplyRulesFrom(rs, i + 1, threat, random)

\* applyRules(threats): one result per threat, in order. randoms[i] is the
\* Math.random() outcome drawn while threat i is evaluated.
\* A variant of applyRules whose conditions all see the threat as it was
\* handed in, not as the earlier matching rules left it.
RECURSIVE ApplyRulesFromOriginal(_, _, _, _, _)
ApplyRulesFromOriginal(rs, i, original, threat, random) ==
    IF i > Len(rs) THEN threat
    ELSE IF /\ rs[i].enabled
            /\ EvalCondition(rs[i].cond, original, random) = "true"
            /\ ~ExecuteRaises(rs[i].action)
         THEN ApplyRulesFromOriginal(rs, i + 1, original,
                  [ExecuteAction(rs[i].action, threat) EXCEPT
                      !.appliedRules = Append(@, AppliedEntry(rs[i]))],
                  random)
         ELSE ApplyRulesFromOriginal(rs, i + 1, original, threat, random)

ApplyRulesOnOriginal(rs, threats, randoms) ==
    [i \in 1..Len(threats) |->
        ApplyRulesFromOriginal(rs, 1, threats[i],
            [threats[i] EXCEPT !.appliedRules = << >>], randoms[i])]

ApplyRules(rs, threats, randoms) ==
    [i \in 1..Len(threats) |->
        ApplyRulesFrom(rs, 1, [threats[i] EXCEPT !.appliedRules = << >>], randoms[i])]

\* Occurrences of rule id in the appliedRules of a list of results.
RECURSIVE CountEntries(_, _)
CountEntries(entries, id) ==
    IF entries = << >> THEN 0
    ELSE (IF Head(entries).ruleId = id THEN 1 ELSE 0) + CountEntries(Tail(entries), id)

RECURSIVE CountMatches(_, _)
CountMatches(results, id) ==
    IF results = << >> THEN 0
    ELSE CountEntries(Head(results).appliedRules, id) + CountMatches(Tail(results), id)

\* recordRuleMatch, once per entry recorded during an applyRules call: the
\* map gets a key only for a rule that matched.
RecordRuleMatches(matches, rs, results) ==
    LET ids == { rs[i].id : i \in 1..Len(rs) }
        hit == { id \in ids : CountMatches(results, id) > 0 }
    IN  [id \in (DOMAIN matches) \cup hit |->
            (IF id \in DOMAIN matches THEN matches[id] ELSE 0) + CountMatches(results, id)]

\* What the callers of the rule administration surface pass in the model.
\* addRule(rule): a hand-built rule.
AddableRules == { Rule("rule_downgrade", "custom_true", RuleAction("escalate", "Low")) }

\* addRule(rule) with a rule whose condition reads the severity that the
\* rules before it may have changed.
DependentRules ==
    { Rule("rule_confirm_critical", "custom_critical", RuleAction("alert", "security_team")) }

\* createCustomRule(name, conditionCode, actionType, actionParams): the
\* condition codes "true" and "threat.meta.flagged", and two actions.
CustomConditions == {"custom_true", "custom_throws"}

CustomActions == { RuleAction("escalate", "Critical") }

\* updateRule(ruleId, updates), disableRule(ruleId), enableRule(ruleId)
AdminTargets == {"rule_ddos_detection", "rule_brute_force", "no_such_rule"}

RuleUpdates ==
    { [action |-> RuleAction("escalate", "Medium")],
      [action |-> NullAction],
      [cond |-> "custom_true"] }

\* Object.assign(rule, updates)
AssignRule(rule, updates) ==
    [f \in DOMAIN rule |-> IF f \in DOMAIN updates THEN updates[f] ELSE rule[f]]

\* this.rules.find(r => r.id === ruleId): position of the first such rule, 0 if none.
FindRule(rs, ruleId) ==
    IF \E i \in 1..Len(rs) : rs[i].id = ruleId
    THEN CHOOSE i \in 1..Len(rs) : rs[i].id = ruleId /\ \A j \in 1..(i - 1) : rs[j].id # ruleId
    ELSE 0


\* ------------------------------------------------------------------------
\* ThreatDetector.classifyThreats (src/core/threatDetector.js:38-108)
\* ------------------------------------------------------------------------
\* What goes wrong inside the AI stage besides a malformed threat: nothing,
\* loadModel() raising, or model inference raising at threat `at` in
\* analyzeThreats ("score") or in detectBehavioralAnomalies ("behavior").
NoFault == [stage |-> "none", at |-> 0]

AIFaults(n) ==
    {NoFault} \cup {[stage |-> "load", at |-> 0]}
    \cup { [stage |-> st, at |-> k] : st \in {"score", "behavior"}, k \in 1..n }

\* The first iteration of a loop at which it raises: the least position of
\* the set, 0 when the set is empty.
FirstIndex(positions) ==
    IF positions = {} THEN 0
    ELSE CHOOSE i \in positions : \A j \in positions : i <= j

\* AnomalyDetector.analyzeThreats: position of the threat at which the loop
\* raises (extractFeatures reads threat.description.match, predictAnomaly may
\* fail), 0 when the loop completes.
AnalyzeFailsAt(threats, fault) ==
    FirstIndex({ i \in 1..Len(threats) :
                    \/ threats[i].description = Undefined
                    \/ (fault.stage = "score" /\ fault.at = i) })

\* analyzeThreats sets threat.aiAnomaly in place, threat by threat, up to the
\* threat at which it raises.
AnalyzeThreats(threats, ai, fault) ==
    LET k == AnalyzeFailsAt(threats, fault)
    IN  [i \in 1..Len(threats) |->
            IF k = 0 \/ i < k THEN [threats[i] EXCEPT !.aiAnomaly = ai[i]] ELSE threats[i]]

\* BehavioralAnalytics.detectBehavioralAnomalies: position at which the loop
\* raises, 0 when it completes.
BehaviorFailsAt(threats, fault) ==
    FirstIndex({ i \in 1..Len(threats) :
                    \/ threats[i].description = Undefined
                    \/ (fault.stage = "behavior" /\ fault.at = i) })

\* detectBehavioralAnomalies sets threat.isBehavioralAnomaly in place, up to
\* the threat at which it raises.
MarkBehavior(threats, beh, fault) ==
    LET k == BehaviorFailsAt(threats, fault)
    IN  [i \in 1..Len(threats) |->
            IF k = 0 \/ i < k THEN [threats[i] EXCEPT !.isBehavioralAnomaly = beh[i]]
            ELSE threats[i]]

\* ... and returns anomalyThreats: the flagged threats only, in order.
IsBehavioralAnomaly(t) == t.isBehavioralAnomaly

AnomalyThreats(threats) == SelectSeq(threats, IsBehavioralAnomaly)

\* behavioralAnomalies.length > 0 ? behavioralAnomalies : analyzedThreats
\* (threatDetector.js:54-55)
ChooseAnalyzed(marked) ==
    IF Len(AnomalyThreats(marked)) > 0 THEN AnomalyThreats(marked) ELSE marked

\* Lines 43-58: the try block around the AI stage. ai[i] and beh[i] are what
\* the two models answer for threat i. Returns analyzedThreats.
AIStage(threats, ai, beh, fault) ==
    IF fault.stage = "load" THEN threats
    ELSE IF AnalyzeFailsAt(threats, fault) # 0 THEN AnalyzeThreats(threats, ai, fault)
    ELSE LET aiAnalyzed == AnalyzeThreats(threats, ai, fault)
             marked == MarkBehavior(aiAnalyzed, beh, fault)
         IN  IF BehaviorFailsAt(aiAnalyzed, fault) # 0 THEN marked
             ELSE ChooseAnalyzed(marked)

\* A variant of Escalate that keeps promoting above Medium (High -> Critical).
EscalateAlsoHigh(threat) ==
    IF threat.aiAnomaly \/ threat.isBehavioralAnomaly
    THEN [threat EXCEPT
            !.aiPrediction = "AI-Detected Anomaly",
            !.severity = IF @ = "Low" THEN "Medium"
                         ELSE IF @ = "Medium" THEN "High"
                         ELSE IF @ = "High" THEN "Critical" ELSE @]
    ELSE [threat EXCEPT !.aiPrediction = "Normal Pattern"]

\* Lines 65-80: the escalation policy on one threat after the rules.
Escalate(threat) ==
    IF threat.aiAnomaly \/ threat.isBehavioralAnomaly
    THEN [threat EXCEPT
            !.aiPrediction = "AI-Detected Anomaly",
            !.severity = IF @ = "Low" THEN "Medium"
                         ELSE IF @ = "Medium" THEN "High" ELSE @]
    ELSE [threat EXCEPT !.aiPrediction = "Normal Pattern"]

\* A variant of Recommend with no label of its own for Low.
RecommendMonitorLow(threat) ==
    [threat EXCEPT !.recommendation =
        IF threat.severity = "High" \/ threat.severity = "Critical"
        THEN "Immediate investigation required"
        ELSE "Monitor closely"]

\* Lines 82-88: the recommendation label from the severity after escalation.
Recommend(threat) ==
    [threat EXCEPT !.recommendation =
        IF threat.severity = "High" \/ threat.severity = "Critical"
        THEN "Immediate investigation required"
        ELSE IF threat.severity = "Medium" THEN "Monitor closely"
        ELSE "Log for reference"]

\* Lines 90-95: explainPrediction(threat, ..., extractBehavioralFeatures(threat,
\* threat.source_ip)) raises when the feature vector cannot be built:
\* extractBehavioralFeatures reads threat.description.length (part_001:70).
ExplainRaises(threat) == threat.description = Undefined

\* protectCriticalAssets raises when a threat has no type:
\* threatTypeMatchesAsset calls threatType.includes (logAnalyzer.js:275).
ProtectRaises(threats) == \E i \in 1..Len(threats) : threats[i].type = Undefined

\* ExplainabilityEngine.extractRiskFactors (part_000:99-135): the factors
\* that depend on the threat alone (the anomaly-signal factor depends on the
\* feature vector).
extractRiskFactors(threat) ==
    (IF threat.severity = "High" \/ threat.severity = "Critical"
     THEN {"High Severity Classification"} ELSE {})
    \cup (IF threat.type \in {"Malware", "Intrusion", "DDoS"}
          THEN {"Known Threat Vector"} ELSE {})
    \cup (IF threat.port # NoPort /\ ParseInt(threat.port) \in {3306, 5432, 27017}
          THEN {"Critical Service Targeted"} ELSE {})

\* ExplainabilityEngine.extractMitigatingFactors (part_000:137-157): the
\* factor that depends on the severity (the other one depends on the length
\* of the description).
extractMitigatingFactors(threat) ==
    IF threat.severity = "Low" THEN {"Low Severity"} ELSE {}

\* Line 91: the first argument of explainPrediction is `threat`, the
\* element of rulesAppliedThreats, not the copy `classified`.
ExplainedArgument(threat) == threat

\* Lines 62-100: the map over the threats the rules returned.
ClassifyOne(threat) ==
    [Recommend(Escalate(threat)) EXCEPT
        !.explainability =
            [riskFactors |-> extractRiskFactors(ExplainedArgument(threat)),
             mitigatingFactors |-> extractMitigatingFactors(ExplainedArgument(threat))]]

\* Lines 60-107, after the AI stage: [raised, threats]. Nothing catches an
\* exception of the map or of protectCriticalAssets inside classifyThreats.
ClassifySync(rs, analyzed, randoms) ==
    LET applied == ApplyRules(rs, analyzed, randoms)
        classified == [i \in 1..Len(applied) |-> ClassifyOne(applied[i])]
    IN  IF (\E i \in 1..Len(applied) : ExplainRaises(applied[i])) \/ ProtectRaises(classified)
        THEN [raised |-> TRUE, rulesApplied |-> applied, threats |-> << >>]
        ELSE [raised |-> FALSE, rulesApplied |-> applied, threats |-> classified]


\* ------------------------------------------------------------------------
\* IncidentResponseOrchestrator (src/core/incidentResponseOrchestrator.js)
\* ------------------------------------------------------------------------
\* One response action: its kind and, for create_alert, the severity it
\* carries (targets, recipients and timestamps are left out).
ResponseAction(kind, severity) == [action |-> kind, severity |-> severity]

\* A variant of handleDDoS that answers in another order.
handleDDoSBlockFirst(threat) ==
    << ResponseAction("ip_blocking", Undefined),
       ResponseAction("rate_limiting", Undefined),
       ResponseAction("traffic_filtering", Undefined),
       ResponseAction("alert_notification", Undefined) >>

handleDDoS(threat) ==
    << ResponseAction("rate_limiting", Undefined),
       ResponseAction("ip_blocking", Undefined),
       ResponseAction("traffic_filtering", Undefined),
       ResponseAction("alert_notification", Undefined) >>

handleIntrusion(threat) ==
    << ResponseAction("isolate_source", Undefined),
       ResponseAction("capture_traffic", Undefined),
       ResponseAction("enable_forensics", Undefined),
       ResponseAction("escalate_alert", Undefined) >>

handleMalware(threat) ==
    << ResponseAction("quarantine_process", Undefined),
       ResponseAction("isolate_host", Undefined),
       ResponseAction("initiate_scan", Undefined),
       ResponseAction("update_signatures", Undefined) >>

handleCredentialCompromise(threat) ==
    << ResponseAction("force_password_reset", Undefined),
       ResponseAction("revoke_sessions", Undefined),
       ResponseAction("enable_mfa", Undefined),
       ResponseAction("audit_access", Undefined) >>

handleSuspiciousConnection(threat) ==
    << ResponseAction("monitor_connection", Undefined),
       ResponseAction("enable_logging", Undefined),
       ResponseAction("create_alert_rule", Undefined) >>

defaultResponse(threat) ==
    << ResponseAction("log_event", Undefined),
       ResponseAction("create_alert", threat.severity) >>

\* this.responseStrategies: the threat types that have a strategy ...
StrategyTypes ==
    { "DDoS", "Intrusion", "Malware", "Credential Compromise", "Suspicious Connection" }

\* ... and what the strategy of the threat's type resolves to.
responseStrategies(threat) ==
    CASE threat.type = "DDoS" -> handleDDoS(threat)
      [] threat.type = "Intrusion" -> handleIntrusion(threat)
      [] threat.type = "Malware" -> handleMalware(threat)
      [] threat.type = "Credential Compromise" -> handleCredentialCompromise(threat)
      [] threat.type = "Suspicious Connection" -> handleSuspiciousConnection(threat)

\* How an orchestrateResponse call ends: it returns null (line 25), the bare
\* array of defaultResponse (line 31) or the object of lines 37-41, or it
\* rejects because createIncident or updateIncidentResponse rejected.
ResultNone ==
    [shape |-> "none", incidentId |-> 0, responses |-> << >>, status |-> Undefined]

ResultRejected ==
    [shape |-> "rejected", incidentId |-> 0, responses |-> << >>, status |-> Undefined]

ResultNull ==
    [shape |-> "null", incidentId |-> 0, responses |-> << >>, status |-> Undefined]

ResultArray(responses) ==
    [shape |-> "array", incidentId |-> 0, responses |-> responses, status |-> Undefined]

ResultObject(incidentId, responses) ==
    [shape |-> "object", incidentId |-> incidentId, responses |-> responses,
     status |-> "initiated"]

\* The rows createIncident (lines 224-226), updateIncidentResponse (244-245)
\* and the fallback of createIncidents (threatDetector.js:123-124) write.
ActiveIncident(threat) ==
    [threat_id |-> threat.id, status |-> "Active",
     response |-> [text |-> "Automated response initiated", actions |-> << >>]]

OpenIncident(threat) ==
    [threat_id |-> threat.id, status |-> "Open",
     response |-> [text |-> "Automated alert sent", actions |-> << >>]]

ResponseData(responses) == [text |-> "json", actions |-> responses]

\* ------------------------------------------------------------------------
\* ThreatDetector.run and the store (src/core/threatDetector.js:110-183)
\* ------------------------------------------------------------------------
\* The two callers of threatDetector.run(): the interval timer of
\* startMonitoring (index.js:608) and a manual scan (index.js:689, api.js:92).
Scans == { "timer", "manual" }

\* What the two collectors hand to classifyThreats in one scan.
Collected ==
    { << >>, << NetworkThreat >>, << LogAnomalyThreat >>, << DDoSThreat >>,
      << MalformedThreat >> }

\* How a call of the store ends: the callback gets no error, the callback
\* gets an error, or the call raises (getDb() without a database, line 150).
DbOutcomes == { "ok", "err", "throw" }

\* The columns of a threats row the model keeps (lines 154-156); the
\* timestamp column defaults to the time of the insert.
ThreatRow(threat, now) == [ts |-> now, type |-> threat.type, severity |-> threat.severity]

\* Line 172: the rows younger than one minute, newest first (rows of one
\* timestamp in insertion order), each with its id.
SelectRecent(table, now) ==
    LET ids == { i \in 1..Len(table) : table[i].ts > now - MinuteTicks }
        Rank(i) == 1 + Cardinality({ j \in ids :
                          \/ table[j].ts > table[i].ts
                          \/ (table[j].ts = table[i].ts /\ j < i) })
    IN  [p \in 1..Cardinality(ids) |->
            LET i == CHOOSE x \in ids : Rank(x) = p
            IN  [id |-> i, type |-> table[i].type, severity |-> table[i].severity]]

\* Line 112: the threats createIncidents routes to the orchestrator.
NeedsIncident(threat) ==
    (threat.severity = "High" \/ threat.severity = "Critical") /\ threat.id # 0

\* A variant of NextIncident that starts over from the first threat.
NextIncidentFromStart(rows, from) ==
    FirstIndex({ i \in 1..Len(rows) : NeedsIncident(rows[i]) })

\* The next threat of the for loop (line 111) that passes line 112, 0 if none.
NextIncident(rows, from) ==
    FirstIndex({ i \in from..Len(rows) : NeedsIncident(rows[i]) })

\* The last orchestrateResponse call a scan has seen end: its argument and
\* how it ended.
NoCall == [threat |-> [id |-> 0, type |-> Undefined, severity |-> Undefined],
           result |-> ResultNone]

OrchCall(threat, result) == [threat |-> threat, result |-> result]

\* A run() call that has not started.
IdleScan ==
    [pc |-> "idle", threats |-> << >>, k |-> 0, rows |-> << >>, incidentId |-> 0,
     orch |-> NoCall, raisedAt |-> "none", settled |-> "pending", value |-> << >>]

\* A variant of RunCatches whose try block ends before createIncidents.
RunCatchesUntilRead(step) == step \in { "collect", "classify", "persist", "read" }

\* Lines 137-146: the steps of run() that sit inside its try block.
RunCatches(step) == step \in { "collect", "classify", "persist", "read", "incidents" }

\* run() when the awaited step raises: the catch returns [] (line 145).
RunRaise(sc, step) ==
    IF RunCatches(step)
    THEN [sc EXCEPT !.pc = "done", !.raisedAt = step, !.settled = "resolved",
                    !.value = << >>]
    ELSE [sc EXCEPT !.pc = "done", !.raisedAt = step, !.settled = "rejected"]

\* run() returns persistedThreats (line 142).
RunReturn(sc) == [sc EXCEPT !.pc = "done", !.settled = "resolved", !.value = sc.rows]

\* createIncidents goes on with the threats from position `from`: it calls
\* orchestrateResponse on the next one that needs an incident and suspends
\* in createIncident, or the loop ends and run() returns.
CreateIncidentsFrom(sc, from) ==
    LET i == NextIncident(sc.rows, from)
    IN  IF i = 0 THEN RunReturn(sc)
        ELSE [sc EXCEPT !.pc = "createIncident", !.k = i, !.incidentId = 0]

\* ------------------------------------------------------------------------
\* CyberSentinelAI.start / stop (src/index.js:536-650)
\* ------------------------------------------------------------------------
\* this.monitoringInterval, this.assetDiscoveryInterval,
\* this.cloudValidationInterval, this.dlpScanInterval
Timers == { "monitoring", "assetDiscovery", "cloudValidation", "dlpScan" }

\* ------------------------------------------------------------------------
\* BehavioralAnalytics baseline profiles (src/unnamed/part_001:29-57)
\* ------------------------------------------------------------------------
\* Line 44: the key `${sourceIp}:${threat.protocol}`.
ProfileKey(sourceIp, threat) == << sourceIp, threat.protocol >>

\* What the model keeps of a threat stored in profile.patterns.
Observation(threat) == [id |-> threat.id, type |-> threat.type, severity |-> threat.severity]

\* Lines 29-41: the profile of a first observation (count and patterns kept).
createBehavioralProfile(threat) == [count |-> 1, patterns |-> << Observation(threat) >>]

\* A variant of PushPattern that drops the newest entry when over the cap.
PushPatternDropNewest(patterns, threat) ==
    LET pushed == Append(patterns, Observation(threat))
    IN  IF Len(pushed) > MaxPatterns THEN SubSeq(pushed, 1, Len(pushed) - 1) ELSE pushed

\* Lines 51-55: patterns.push(threat), then shift() when longer than 100.
PushPattern(patterns, threat) ==
    LET pushed == Append(patterns, Observation(threat))
    IN  IF Len(pushed) > MaxPatterns THEN Tail(pushed) ELSE pushed

\* Lines 43-57.
updateBaselineProfile(profiles, sourceIp, threat) ==
    LET key == ProfileKey(sourceIp, threat)
    IN  IF key \notin DOMAIN profiles
        THEN [k \in (DOMAIN profiles) \cup {key} |->
                IF k = key THEN createBehavioralProfile(threat) ELSE profiles[k]]
        ELSE [profiles EXCEPT ![key] =
                [count |-> @.count + 1, patterns |-> PushPattern(@.patterns, threat)]]

\* detectBehavioralAnomalies (lines 114-117) calls updateBaselineProfile on
\* each threat it reaches, before the step of the iteration that may raise.
RECURSIVE ObserveAll(_, _, _)
ObserveAll(profiles, threats, n) ==
    IF n = 0 THEN profiles
    ELSE updateBaselineProfile(ObserveAll(profiles, threats, n - 1),
                               threats[n].source_ip, threats[n])

ProfilesAfter(profiles, threats, fault) ==
    LET k == BehaviorFailsAt(threats, fault)
    IN  ObserveAll(profiles, threats, IF k = 0 THEN Len(threats) ELSE k)

\* The keys observed through direct updateBaselineProfile calls.
ProfiledSources == { "10.0.0.5", "192.168.1.7" }

ProfiledProtocols == { "TCP" }

\* The n-th threat observed for a key; its id is n.
ObservedThreat(sourceIp, protocol, n) ==
    [id |-> n, type |-> "Suspicious Connection", severity |-> "High",
     source_ip |-> sourceIp, protocol |-> protocol]

\* profile.count of a key, 0 for a key without profile.
ProfileCount(profiles, key) ==
    IF key \in DOMAIN profiles THEN profiles[key].count ELSE 0

\* The observations made in all.
RECURSIVE SumCounts(_, _)
SumCounts(profiles, keys) ==
    IF keys = {} THEN 0
    ELSE LET k == CHOOSE x \in keys : TRUE
         IN  profiles[k].count + SumCounts(profiles, keys \ {k})

\* threatDetector.js:46-54: which of the two AI components classifyThreats
\* gets to call before its try block is left.
ScorerInvoked(threats, fault) == fault.stage # "load"

ProfilerInvoked(threats, fault) ==
    fault.stage # "load" /\ AnalyzeFailsAt(threats, fault) = 0

\* ------------------------------------------------------------------------
\* ConfigManager (src/core/logAnalyzer.js:426-593) and runScan
\* (src/index.js:545-567)
\* ------------------------------------------------------------------------
\* Lines 429-465: the defaults of the keys the scan reads.
defaultConfig ==
    [ai_enabled |-> TRUE, alert_on_high_severity |-> TRUE,
     alert_on_medium_severity |-> FALSE]

ConfigKeys == { "ai_enabled", "alert_on_high_severity", "alert_on_medium_severity" }

\* Lines 580-584.
shouldAlertOnSeverity(cfg, severity) ==
    IF severity = "High" THEN cfg.alert_on_high_severity
    ELSE IF severity = "Medium" THEN cfg.alert_on_medium_severity
    ELSE FALSE

\* Lines 591-593.
isAIEnabled(cfg) == cfg.ai_enabled

\* What the collectors hand over in one scheduled scan.
ScanCollected ==
    Collected \cup { << NetworkThreat, DDoSThreat >>, << NetworkThreat, LogAnomalyThreat >> }

\* threatDetector.run() in a scan on an empty store that answers every call
\* at once: the rows of the classified threats as they are read back, with
\* their ids and the columns of the table (no flag, no label is stored).
ScanRows(threats) ==
    [i \in 1..Len(threats) |->
        [Candidate(threats[i].type, threats[i].severity, threats[i].description,
                   threats[i].source_ip, threats[i].protocol, threats[i].port)
            EXCEPT !.id = i]]

\* ------------------------------------------------------------------------
\* InfrastructureProtection.assessThreatToAsset (src/core/logAnalyzer.js:237-276)
\* Scores are in hundredths: 0.75 is 75.
\* ------------------------------------------------------------------------
\* A JavaScript number: a finite value in hundredths, or NaN.
Num(v) == [nan |-> FALSE, val |-> v]
NaN == [nan |-> TRUE, val |-> 0]

\* Three of the six assets of initializeCriticalAssets (lines 123-172).
Asset(id, type, ports) == [id |-> id, type |-> type, ports |-> ports]

DatabaseAsset == Asset("asset_database", "database", {3306, 5432, 27017})

CriticalAssets ==
    { DatabaseAsset,
      Asset("asset_web_server", "web", {80, 443}),
      Asset("asset_firewall", "firewall", {}) }

\* Lines 266-273: the threat-type keywords of an asset type.
TypeMappings(assetType) ==
    CASE assetType = "database" -> {"SQL Injection", "Intrusion", "Credential Compromise"}
      [] assetType = "web" -> {"DDoS", "Web Attack", "Intrusion"}
      [] assetType = "api" -> {"API Abuse", "Intrusion", "DDoS"}
      [] assetType = "auth" -> {"Credential Compromise", "Brute Force", "Intrusion"}
      [] assetType = "dns" -> {"DNS Spoofing", "DDoS", "Cache Poisoning"}
      [] assetType = "firewall" -> {"Network Intrusion", "Port Scanning", "DDoS"}
      [] OTHER -> {}

\* The threat types assessed in the model, and for each the keywords of the
\* mappings that the type string contains (threatType.includes(type)).
AssessedTypes == {"SQL Injection", "DDoS", "Network Intrusion", "Benign"}

TypeContains(threatType) ==
    CASE threatType = "SQL Injection" -> {"SQL Injection"}
      [] threatType = "DDoS" -> {"DDoS"}
      [] threatType = "Network Intrusion" -> {"Network Intrusion", "Intrusion"}
      [] threatType = "Intrusion" -> {"Intrusion"}
      [] OTHER -> {}

\* Line 275: mappings[assetType]?.some(type => threatType.includes(type)) || false
threatTypeMatchesAsset(threatType, assetType) ==
    TypeMappings(assetType) \cap TypeContains(threatType) # {}

\* ... which raises a TypeError when the threat has no type and the asset
\* type has a mapping.
TypeMatchRaises(threatType, assetType) ==
    threatType = Undefined /\ TypeMappings(assetType) # {}

\* The severities assessed: the four levels, an unknown word, a missing
\* severity, and a word that names a property every object inherits.
AssessedSeverities == Severities \cup {"Info", Undefined, "constructor"}

\* Lines 238-243 and 247: severity[threat.severity] || 0.25. The lookup on
\* the object literal also finds inherited properties: for "constructor" it
\* yields a function, which is truthy and is what the sum then adds.
SeverityLookup(severity) ==
    CASE severity = "Critical" -> [kind |-> "number", val |-> 100]
      [] severity = "High" -> [kind |-> "number", val |-> 75]
      [] severity = "Medium" -> [kind |-> "number", val |-> 50]
      [] severity = "Low" -> [kind |-> "number", val |-> 25]
      [] severity = "constructor" -> [kind |-> "function", val |-> 0]
      [] OTHER -> [kind |-> "number", val |-> 25]

\* A port match without parseInt: a port given as a string matches nothing.
PortMatchStrict(threat, asset) ==
    threat.port.kind = "number" /\ threat.port.val \in asset.ports

\* Line 245: asset.ports.includes(parseInt(threat.port))
PortMatch(threat, asset) == ParseInt(threat.port) \in asset.ports

\* Lines 249-251: the sum. Adding a function to a number concatenates
\* strings; the numeric value of that string is NaN.
RawRiskScore(threat, asset) ==
    LET t == SeverityLookup(threat.severity)
        base == (IF PortMatch(threat, asset) THEN 50 ELSE 20)
                + (IF threatTypeMatchesAsset(threat.type, asset.type) THEN 30 ELSE 0)
    IN  IF t.kind = "number" THEN Num(base + t.val) ELSE NaN

\* Line 258: Math.min(riskScore, 1.0)
MinOne(x) == IF x.nan THEN NaN ELSE IF x.val < 100 THEN x ELSE Num(100)

\* Lines 278-310, getRecommendedAction(riskScore, asset).priority; a
\* comparison with NaN is false.
RecommendedPriority(x) ==
    IF ~x.nan /\ x.val > 80 THEN "immediate"
    ELSE IF ~x.nan /\ x.val > 50 THEN "high"
    ELSE "medium"

\* The threats handed to assessThreatToAsset in the model.
AssessedPorts == { NumPort(3306), StrPort(3306), NumPort(443), NumPort(9999), NoPort }

AssessedThreats ==
    { [id |-> 1, type |-> ty, severity |-> sev, port |-> po] :
        ty \in AssessedTypes \cup {Undefined}, sev \in AssessedSeverities, po \in AssessedPorts }

NoAssessment == [outcome |-> "none"]

\* assessThreatToAsset(threat, asset): what the call ends with, next to its
\* arguments and the sum before the cap.
assessThreatToAsset(threat, asset) ==
    IF TypeMatchRaises(threat.type, asset.type)
    THEN [outcome |-> "raised", threat |-> threat, asset |-> asset]
    ELSE [outcome |-> "returned", threat |-> threat, asset |-> asset,
          uncapped |-> RawRiskScore(threat, asset),
          assetId |-> asset.id,
          threatType |-> threat.type,
          riskScore |-> MinOne(RawRiskScore(threat, asset)),
          isDirectThreat |-> PortMatch(threat, asset),
          isTypicalThreat |-> threatTypeMatchesAsset(threat.type, asset.type),
          priority |-> RecommendedPriority(RawRiskScore(threat, asset))]

\* ------------------------------------------------------------------------
\* ExplainabilityEngine (src/unnamed/part_000:4-35, 159-233)
\* Bias scores are in thousandths: 0.3 is 300.
\* ------------------------------------------------------------------------
\* The source addresses explained in the model and sourceIp?.split('.')[0]
ExplainedSources == { "10.0.0.5", "10.9.9.9", "192.168.1.7" }

FirstOctet(sourceIp) ==
    CASE sourceIp = "10.0.0.5" -> "10"
      [] sourceIp = "10.9.9.9" -> "10"
      [] sourceIp = "192.168.1.7" -> "192"
      [] OTHER -> "undefined"

Octets == { FirstOctet(ip) : ip \in ExplainedSources }

\* The n-th threat explained; its id is n.
ExplainedThreat(sourceIp, n) ==
    [id |-> n, type |-> "Suspicious Connection", severity |-> "High",
     source_ip |-> sourceIp, port |-> "22"]

\* (this.biasMetrics.get(key) || 0) + 1, and this.biasMetrics.set(key, count)
NextCount(metrics, key) == (IF key \in DOMAIN metrics THEN metrics[key] ELSE 0) + 1

SetCount(metrics, key, count) ==
    [k \in (DOMAIN metrics) \cup {key} |-> IF k = key THEN count ELSE metrics[k]]

\* The keys `source_${ipPattern}`, `port_${port}`, `type_${threatType}`
SourceKey(sourceIp) == << "source", FirstOctet(sourceIp) >>
PortKey(port) == << "port", port >>
TypeKey(threatType) == << "type", threatType >>

\* A variant of detectSourceIpBias that reports the 50th observation already.
detectSourceIpBiasFromFifty(metrics, sourceIp) ==
    LET count == NextCount(metrics, SourceKey(sourceIp))
    IN  [type |-> "source_ip_concentration", frequency |-> count,
         biased |-> count >= SourceBiasAbove,
         score |-> IF count >= SourceBiasAbove THEN 300 ELSE 50]

\* Lines 189-203: the indicator; the counter is set by assessBiasRisk below.
detectSourceIpBias(metrics, sourceIp) ==
    LET count == NextCount(metrics, SourceKey(sourceIp))
    IN  [type |-> "source_ip_concentration", frequency |-> count,
         biased |-> count > SourceBiasAbove,
         score |-> IF count > SourceBiasAbove THEN 300 ELSE 50]

\* Lines 205-218.
detectPortBias(metrics, port) ==
    LET count == NextCount(metrics, PortKey(port))
    IN  [type |-> "port_bias", frequency |-> count,
         biased |-> count > PortBiasAbove,
         score |-> IF count > PortBiasAbove THEN 250 ELSE 50]

\* Lines 220-233.
detectThreatTypeBias(metrics, threatType) ==
    LET count == NextCount(metrics, TypeKey(threatType))
    IN  [type |-> "threat_type_bias", frequency |-> count,
         biased |-> count > TypeBiasAbove,
         score |-> IF count > TypeBiasAbove THEN 200 ELSE 50]

IsBiased(indicator) == indicator.biased

RECURSIVE SumScores(_)
SumScores(indicators) ==
    IF indicators = << >> THEN 0
    ELSE Head(indicators).score + SumScores(Tail(indicators))

\* Lines 159-187: the three detectors in order, the biased indicators kept,
\* their mean score against biasThreshold (0.15).
assessBiasRisk(metrics, threat) ==
    LET biasIndicators ==
            SelectSeq(<< detectSourceIpBias(metrics, threat.source_ip),
                         detectPortBias(metrics, threat.port),
                         detectThreatTypeBias(metrics, threat.type) >>, IsBiased)
        n == Len(biasIndicators)
        totalBias == SumScores(biasIndicators) \div (IF n > 1 THEN n ELSE 1)
    IN  [riskDetected |-> totalBias > 150, biasScore |-> totalBias,
         indicators |-> biasIndicators]

\* The counters after assessBiasRisk: each detector has set its own.
MetricsAfter(metrics, threat) ==
    LET m1 == SetCount(metrics, SourceKey(threat.source_ip),
                       NextCount(metrics, SourceKey(threat.source_ip)))
        m2 == SetCount(m1, PortKey(threat.port), NextCount(m1, PortKey(threat.port)))
    IN  SetCount(m2, TypeKey(threat.type), NextCount(m2, TypeKey(threat.type)))

\* Lines 12-27: the explanation built for a threat.
Explanation(metrics, threat) ==
    [threatId |-> threat.id, sourceIp |-> threat.source_ip,
     biasRisk |-> assessBiasRisk(metrics, threat)]

\* What the model keeps of an explanation in predictionExplanations.
HistoryEntry(explanation) == [threatId |-> explanation.threatId]

\* A variant of PushExplanation that drops the newest entry when over the cap.
PushExplanationDropNewest(history, explanation) ==
    LET pushed == Append(history, HistoryEntry(explanation))
    IN  IF Len(pushed) > MaxExplanations THEN SubSeq(pushed, 1, Len(pushed) - 1) ELSE pushed

\* Lines 29-32: predictionExplanations.push(explanation), then shift()
\* when longer than 1000.
PushExplanation(history, explanation) ==
    LET pushed == Append(history, HistoryEntry(explanation))
    IN  IF Len(pushed) > MaxExplanations THEN Tail(pushed) ELSE pushed

NoExplanation == [threatId |-> 0]

\* Lines 241-243 of generateTransparencyReport: the keys of the entries of
\* biasMetrics that pass the filter count > 50.
DetectedBiases(metrics) == { key \in DOMAIN metrics : metrics[key] > ReportBiasAbove }

\* array.slice(-limit): from the limit-th element from the end, from the
\* start when the array is shorter; -0 is 0, the whole array.
SliceLast(seq, limit) ==
    LET start == IF limit = 0 THEN 0
                 ELSE IF limit > Len(seq) THEN 0 ELSE Len(seq) - limit
    IN  SubSeq(seq, start + 1, Len(seq))

Reverse(seq) == [k \in 1..Len(seq) |-> seq[Len(seq) - k + 1]]

\* Lines 306-308.
getExplanations(history, limit) == Reverse(SliceLast(history, limit))

\* ------------------------------------------------------------------------
\* InfrastructureProtection.protectCriticalAssets (logAnalyzer.js:367-390)
\* and the attachment of its result (threatDetector.js:102-105)
\* ------------------------------------------------------------------------
\* assessment.riskScore > 0.5; a comparison with NaN is false.
AboveHalf(x) == ~x.nan /\ x.val > 50

\* The assets in the order of the Map (insertion order).
AssetOrder ==
    << DatabaseAsset, Asset("asset_web_server", "web", {80, 443}),
       Asset("asset_firewall", "firewall", {}) >>

\* Lines 374-384: the protection action pushed for threat number i of the
\* batch against an asset. `origin` is not a field of the program: it
\* remembers which threat of the batch the action was built from.
ProtectionAction(threat, asset, i) ==
    [assetId |-> asset.id, threatId |-> threat.id, threatType |-> threat.type,
     riskScore |-> assessThreatToAsset(threat, asset).riskScore, origin |-> i]

\* The inner loop (lines 371-386) for one threat: one action per asset whose
\* assessment is above 0.5, in the order of the assets.
RECURSIVE ActionsOfThreat(_, _, _)
ActionsOfThreat(threat, i, a) ==
    IF a > Len(AssetOrder) THEN << >>
    ELSE (IF AboveHalf(assessThreatToAsset(threat, AssetOrder[a]).riskScore)
          THEN << ProtectionAction(threat, AssetOrder[a], i) >>
          ELSE << >>) \o ActionsOfThreat(threat, i, a + 1)

\* protectCriticalAssets(threats): the actions of the threats from number i on.
RECURSIVE ProtectFrom(_, _)
ProtectFrom(threats, i) ==
    IF i > Len(threats) THEN << >>
    ELSE ActionsOfThreat(threats[i], i, 1) \o ProtectFrom(threats, i + 1)

protectCriticalAssets(threats) == ProtectFrom(threats, 1)

\* threatDetector.js:104: protectionActions.filter(a => a.threatId ===
\* threat.id) for threat number i; undefined === undefined holds.
RECURSIVE AttachedTo(_, _, _)
AttachedTo(actions, threat, i) ==
    IF actions = << >> THEN << >>
    ELSE (IF Head(actions).threatId = threat.id THEN << Head(actions) >> ELSE << >>)
         \o AttachedTo(Tail(actions), threat, i)

\* The threats classifyThreats hands over: candidates of the collectors, which
\* have no id before persistThreats, or threats that carry the id of their row.
ProtectedCandidates == { NetworkThreat, LogAnomalyThreat, BenignThreat, DDoSThreat }

WithIds(threats, persisted) ==
    [i \in 1..Len(threats) |-> [threats[i] EXCEPT !.id = IF persisted THEN i ELSE 0]]

NoProtection == [threats |-> << >>, actions |-> << >>, attached |-> << >>]


\* ------------------------------------------------------------------------
\* ExplainabilityEngine.explainFeatureContribution (src/unnamed/part_000:37-97)
\* ------------------------------------------------------------------------
\* A feature value in tenths: 0.3, 0.5 and 0.9.
FeatureValues == {3, 5, 9}

\* Lines 42-55: the contribution pushed for the feature at JavaScript index
\* index, or none.
Contributes(feature) == feature > MediumImpactAbove

Contribution(feature, index) ==
    [feature |-> index, value |-> feature,
     impact |-> IF feature > HighImpactAbove THEN "high" ELSE "medium"]

\* Lines 40-57: forEach pushes in index order.
RECURSIVE ContributionsFrom(_, _)
ContributionsFrom(features, i) ==
    IF i > Len(features) THEN << >>
    ELSE IF Contributes(features[i])
         THEN << Contribution(features[i], i - 1) >> \o ContributionsFrom(features, i + 1)
         ELSE ContributionsFrom(features, i + 1)

\* contributions.slice(from, to)
Slice(seq, from, to) ==
    SubSeq(seq, from + 1, IF to < Len(seq) THEN to ELSE Len(seq))

\* Lines 86-97: the summary names contributions[0] as the primary indicator
\* and contributions.slice(1, 3) as the secondary ones.
generateFeatureSummary(contributions) ==
    IF contributions = << >> THEN [significant |-> FALSE]
    ELSE [significant |-> TRUE,
          primary |-> contributions[1].feature,
          confidence |-> contributions[1].value,
          secondary |-> [k \in 1..Len(Slice(contributions, 1, 3)) |->
                            Slice(contributions, 1, 3)[k].feature]]

explainFeatureContribution(features) ==
    LET contributions == ContributionsFrom(features, 1)
    IN  [topContributors |-> Slice(contributions, 0, TopContributors),
         summary |-> generateFeatureSummary(contributions)]

\* No call of explainFeatureContribution yet.
NoFeatureAnalysis == [called |-> FALSE, features |-> << >>, result |-> << >>]

\* ------------------------------------------------------------------------
\* State
\* ------------------------------------------------------------------------
VARIABLES
    \* SecurityRulesEngine
    rules,          \* this.rules, in registration order
    ruleMatches,    \* this.ruleMatches: rule id -> count
    adminOps,       \* rule administration calls made so far
    ruleCalls,      \* the direct applyRules calls made so far: input, rules, output
    \* one classifyThreats call
    pc,             \* "idle", "analyzing" (inside the awaited AI stage), "done"
    batch,          \* the threats argument
    analyzed,       \* analyzedThreats when the AI stage is over
    rulesApplied,   \* rulesAppliedThreats
    classified,     \* the value classifyThreats resolves to
    outcome,        \* "none", "returned", "raised"
    \* the store and the ThreatDetector.run calls in flight
    threatsTable,   \* rows of table threats; the id of a row is its position
    incidentsTable, \* rows of table incidents; the id of a row is its position
    clock,          \* the time of the store, in minutes
    faults,         \* failures the environment has produced so far
    scan,           \* scan -> the state of its ThreatDetector.run call
    \* CyberSentinelAI start / stop
    startPc,        \* where start() is
    stopPc,         \* where stop() is
    timers,         \* interval handle -> "unset", "armed", "cleared"
    fired,          \* interval handle -> times its callback was started
    running,        \* interval handle -> callbacks of it in flight
    \* one scheduled scan (runScan) and the memory of the AI components
    config,         \* ConfigManager.config with its defaults filled in
    scanPc,         \* "idle", "run" (awaiting threatDetector.run), "analyze", "done"
    scanClassified, \* what classifyThreats returned inside run()
    scanReturned,   \* what threatDetector.run() resolved to
    scanAnalyzed,   \* analyzedThreats of runScan
    alerted,        \* the threats handed to handleAlerts
    scorerCalls,    \* calls of AnomalyDetector.analyzeThreats
    profilerCalls,  \* calls of BehavioralAnalytics.detectBehavioralAnomalies
    baselineProfiles, \* BehavioralAnalytics.baselineProfiles: key -> profile
    \* InfrastructureProtection
    assessment,     \* the last assessThreatToAsset call: arguments and result
    \* ExplainabilityEngine
    biasMetrics,    \* this.biasMetrics: key -> count
    predictionExplanations, \* this.predictionExplanations
    explanation,    \* what the last explainPrediction call returned
    explainCalls,   \* first octet -> explainPrediction calls made with it
    \* the last steps of classifyThreats
    protection,     \* the last protectCriticalAssets call and what was attached
    featureAnalysis \* the last explainFeatureContribution call and its result

varsRules == << rules, ruleMatches, adminOps, ruleCalls >>
varsClassify == << pc, batch, analyzed, rulesApplied, classified, outcome >>
varsRun == << threatsTable, incidentsTable, clock, faults, scan >>
varsSched == << startPc, stopPc, timers, fired, running >>
varsScan == << config, scanPc, scanClassified, scanReturned, scanAnalyzed, alerted,
              scorerCalls, profilerCalls >>
varsAsset == << assessment >>
varsExplain == << biasMetrics, predictionExplanations, explanation, explainCalls >>
varsProtect == << protection >>
varsFeature == << featureAnalysis >>
varsLate == << varsProtect, varsFeature >>
varsAux == << varsAsset, varsExplain, varsLate >>
varsMore == << config, scanPc, scanClassified, scanReturned, scanAnalyzed, alerted,
              scorerCalls, profilerCalls, baselineProfiles, varsAux >>
vars == << rules, ruleMatches, adminOps, ruleCalls,
           pc, batch, analyzed, rulesApplied, classified, outcome,
           threatsTable, incidentsTable, clock, faults, scan,
           startPc, stopPc, timers, fired, running,
           config, scanPc, scanClassified, scanReturned, scanAnalyzed, alerted,
           scorerCalls, profilerCalls, baselineProfiles, assessment,
           biasMetrics, predictionExplanations, explanation, explainCalls,
           protection, featureAnalysis >>

\* The state after the constructors have run.
InitRules ==
    /\ rules = DefaultRules
    /\ ruleMatches = << >>
    /\ adminOps = 0
    /\ ruleCalls = << >>

InitClassify ==
    /\ pc = "idle"
    /\ batch = << >>
    /\ analyzed = << >>
    /\ rulesApplied = << >>
    /\ classified = << >>
    /\ outcome = "none"

InitRun ==
    /\ threatsTable = << >>
    /\ incidentsTable = << >>
    /\ clock = 0
    /\ faults = 0
    /\ scan = [s \in Scans |-> IdleScan]

InitSched ==
    /\ startPc = "new"
    /\ stopPc = "none"
    /\ timers = [t \in Timers |-> "unset"]
    /\ fired = [t \in Timers |-> 0]
    /\ running = [t \in Timers |-> 0]

InitScan ==
    /\ config = defaultConfig
    /\ scanPc = "idle"
    /\ scanClassified = << >>
    /\ scanReturned = << >>
    /\ scanAnalyzed = << >>
    /\ alerted = << >>
    /\ scorerCalls = 0
    /\ profilerCalls = 0

InitProfiles ==
    baselineProfiles = << >>

InitAsset ==
    assessment = NoAssessment

InitExplain ==
    /\ biasMetrics = << >>
    /\ predictionExplanations = << >>
    /\ explanation = NoExplanation
    /\ explainCalls = [o \in Octets |-> 0]

InitLate ==
    /\ protection = NoProtection
    /\ featureAnalysis = NoFeatureAnalysis

Init ==
    /\ InitRules
    /\ InitClassify
    /\ InitRun
    /\ InitSched
    /\ InitScan
    /\ InitProfiles
    /\ InitAsset
    /\ InitExplain
    /\ InitLate

\* ------------------------------------------------------------------------
\* Rule administration (api.test.js:289-295, 403-458). A call runs to
\* completion; it can fall between two awaits of a classifyThreats call.
\* ------------------------------------------------------------------------
AdminAllowed == adminOps < MaxAdminOps /\ pc \in {"idle", "analyzing"}

AddRule(rule) ==
    /\ AdminAllowed
    /\ rules' = Append(rules, rule)
    /\ adminOps' = adminOps + 1
    /\ UNCHANGED << ruleMatches, ruleCalls >>
    /\ UNCHANGED varsClassify
    /\ UNCHANGED varsRun
    /\ UNCHANGED varsSched
    /\ UNCHANGED varsMore

CreateCustomRule(cond, action) ==
    /\ AdminAllowed
    /\ rules' = Append(rules, Rule("custom_1", cond, action))
    /\ adminOps' = adminOps + 1
    /\ UNCHANGED << ruleMatches, ruleCalls >>
    /\ UNCHANGED varsClassify
    /\ UNCHANGED varsRun
    /\ UNCHANGED varsSched
    /\ UNCHANGED varsMore

UpdateRule(ruleId, updates) ==
    /\ AdminAllowed
    /\ LET i == FindRule(rules, ruleId)
       IN  rules' = IF i = 0 THEN rules ELSE [rules EXCEPT ![i] = AssignRule(@, updates)]
    /\ adminOps' = adminOps + 1
    /\ UNCHANGED << ruleMatches, ruleCalls >>
    /\ UNCHANGED varsClassify
    /\ UNCHANGED varsRun
    /\ UNCHANGED varsSched
    /\ UNCHANGED varsMore

SetEnabled(rs, ruleId, flag) ==
    LET i == FindRule(rs, ruleId)
    IN  IF i = 0 THEN rs ELSE [rs EXCEPT ![i].enabled = flag]

DisableRule(ruleId) ==
    /\ AdminAllowed
    /\ rules' = SetEnabled(rules, ruleId, FALSE)
    /\ adminOps' = adminOps + 1
    /\ UNCHANGED << ruleMatches, ruleCalls >>
    /\ UNCHANGED varsClassify
    /\ UNCHANGED varsRun
    /\ UNCHANGED varsSched
    /\ UNCHANGED varsMore

EnableRule(ruleId) ==
    /\ AdminAllowed
    /\ rules' = SetEnabled(rules, ruleId, TRUE)
    /\ adminOps' = adminOps + 1
    /\ UNCHANGED << ruleMatches, ruleCalls >>
    /\ UNCHANGED varsClassify
    /\ UNCHANGED varsRun
    /\ UNCHANGED varsSched
    /\ UNCHANGED varsMore

Admin ==
    \/ \E r \in AddableRules : AddRule(r)
    \/ \E c \in CustomConditions, a \in CustomActions : CreateCustomRule(c, a)
    \/ \E id \in AdminTargets, u \in RuleUpdates : UpdateRule(id, u)
    \/ \E id \in AdminTargets : DisableRule(id)
    \/ \E id \in AdminTargets : EnableRule(id)

\* ------------------------------------------------------------------------
\* classifyThreats as the caller sees it
\* ------------------------------------------------------------------------
\* Lines 38-47: the call. An empty batch returns [] at once; otherwise the
\* function suspends in the AI stage.
ClassifyCall(threats) ==
    /\ pc = "idle"
    /\ batch' = threats
    /\ IF Len(threats) = 0
       THEN /\ pc' = "done"
            /\ outcome' = "returned"
       ELSE /\ pc' = "analyzing"
            /\ outcome' = "none"
    /\ UNCHANGED << analyzed, rulesApplied, classified >>
    /\ UNCHANGED varsRules
    /\ UNCHANGED varsRun
    /\ UNCHANGED varsSched
    /\ UNCHANGED varsMore

\* The answers of the environment during one classifyThreats call: ai[i] and
\* beh[i] are what the two models answer for threat i, fault is what goes
\* wrong in the AI stage. An answer that is never asked for (a threat the
\* stage does not reach) is fixed to FALSE, and a fault is placed only where
\* the stage arrives, so that each outcome is listed once.
AnswersAsked(threats, ai, beh, fault) ==
    LET n == Len(threats)
        k1 == AnalyzeFailsAt(threats, fault)
        k2 == BehaviorFailsAt(threats, fault)
    IN  /\ fault.stage \in {"score", "behavior"} =>
              \A j \in 1..n : threats[j].description # Undefined
        /\ \A i \in 1..n : ai[i] => (fault.stage # "load" /\ (k1 = 0 \/ i < k1))
        /\ \A i \in 1..n : beh[i] => (fault.stage # "load" /\ k1 = 0 /\ (k2 = 0 \/ i < k2))

\* randoms[i] is the Math.random() < 0.3 drawn while the rules run on the
\* i-th analyzed threat; the default DDoS condition draws one only for a
\* Suspicious Connection of severity High, and no other condition draws.
RandomDraws(threats) ==
    { r \in [1..Len(threats) -> BOOLEAN] :
        \A i \in 1..Len(threats) :
            r[i] => (threats[i].type = "Suspicious Connection" /\ threats[i].severity = "High") }

\* Lines 49-107: the AI stage ends (completed or caught) and the rest of the
\* function runs without suspending.
ClassifyResume(ai, beh, fault) ==
    /\ pc = "analyzing"
    /\ AnswersAsked(batch, ai, beh, fault)
    /\ \E an \in {AIStage(batch, ai, beh, fault)} :
         \E randoms \in RandomDraws(an) :
           \E res \in {ClassifySync(rules, an, randoms)} :
             /\ analyzed' = an
             /\ rulesApplied' = res.rulesApplied
             /\ classified' = res.threats
             /\ outcome' = IF res.raised THEN "raised" ELSE "returned"
             /\ ruleMatches' = RecordRuleMatches(ruleMatches, rules, res.rulesApplied)
    /\ pc' = "done"
    /\ UNCHANGED << rules, adminOps, ruleCalls, batch >>
    /\ UNCHANGED varsRun
    /\ UNCHANGED varsSched
    /\ UNCHANGED varsMore

Classify ==
    \/ \E threats \in SeqUpTo(Candidates, MaxBatch) : ClassifyCall(threats)
    \/ \E fault \in AIFaults(Len(batch)) :
         \E ai \in [1..Len(batch) -> BOOLEAN], beh \in [1..Len(batch) -> BOOLEAN] :
            ClassifyResume(ai, beh, fault)

\* ------------------------------------------------------------------------
\* A direct call applyRules([threat]) (api.test.js:297-330), recorded with the
\* enabled rules it ran under.
\* ------------------------------------------------------------------------
IsEnabled(rule) == rule.enabled

EnabledRules(rs) == SelectSeq(rs, IsEnabled)

ApplyRulesCall(threat, random) ==
    /\ pc = "idle"
    /\ Len(ruleCalls) < MaxRuleCalls
    /\ \E results \in {ApplyRules(rules, << threat >>, << random >>)} :
         /\ ruleCalls' = Append(ruleCalls,
                [input |-> threat, enabled |-> EnabledRules(rules), output |-> results[1]])
         /\ ruleMatches' = RecordRuleMatches(ruleMatches, rules, results)
    /\ UNCHANGED << rules, adminOps >>
    /\ UNCHANGED varsClassify
    /\ UNCHANGED varsRun
    /\ UNCHANGED varsSched
    /\ UNCHANGED varsMore

RuleCalls ==
    \E threat \in Candidates : \E r \in RandomDraws(<< threat >>) : ApplyRulesCall(threat, r[1])

Next ==
    \/ Admin
    \/ Classify

\* The rules engine on its own: administration and direct applyRules calls.
NextRules ==
    \/ Admin
    \/ \E r \in DependentRules : AddRule(r)
    \/ RuleCalls

SpecRules == Init /\ [][NextRules]_vars

Spec == Init /\ [][Next]_vars


\* ------------------------------------------------------------------------
\* ThreatDetector.run, one action per resumption (threatDetector.js:136-147).
\* Two calls interleave at their awaits; each action runs from the callback
\* of one store call to the next store call the scan issues.
\* ------------------------------------------------------------------------
\* The failures the environment may still produce.
MayFail == faults < MaxFaults

CountFault(out) == IF out = "ok" THEN faults ELSE faults + 1

\* What persistThreats writes of a classified threat (lines 154-156).
Columns(threat) == [type |-> threat.type, severity |-> threat.severity]

\* persistThreats at its k-th threat: the insert is issued, or the loop is
\* over, run() calls getPersistedThreats and db.all is issued.
PersistFrom(sc, k) ==
    IF k <= Len(sc.threats) THEN [sc EXCEPT !.pc = "persist", !.k = k]
    ELSE [sc EXCEPT !.pc = "read", !.k = 0]

\* A timer tick or a manual scan calls run(): detectThreats awaits the
\* collectors. Nothing keeps a second call from starting meanwhile.
RunStart(s) ==
    /\ scan[s].pc = "idle"
    /\ scan' = [scan EXCEPT ![s].pc = "detect"]
    /\ UNCHANGED << threatsTable, incidentsTable, clock, faults >>
    /\ UNCHANGED varsRules
    /\ UNCHANGED varsClassify
    /\ UNCHANGED varsSched
    /\ UNCHANGED varsMore

\* Lines 27-28: a collector rejects.
RunCollectFails(s) ==
    /\ scan[s].pc = "detect"
    /\ MayFail
    /\ faults' = faults + 1
    /\ scan' = [scan EXCEPT ![s] = RunRaise(@, "collect")]
    /\ UNCHANGED << threatsTable, incidentsTable, clock >>
    /\ UNCHANGED varsRules
    /\ UNCHANGED varsClassify
    /\ UNCHANGED varsSched
    /\ UNCHANGED varsMore

\* Lines 27-35 and 139, 149-153: the collectors resolve with `threats`,
\* classifyThreats runs (its awaits touch nothing another scan reads before
\* the rules run), then persistThreats takes the database handle (getDb is
\* `db`: "ok" or "throw") and issues its first insert.
RunDetect(s, threats, ai, beh, fault, db) ==
    /\ scan[s].pc = "detect"
    /\ AnswersAsked(threats, ai, beh, fault)
    /\ db = "throw" => MayFail
    /\ IF Len(threats) = 0
       THEN /\ fault = NoFault
            /\ scan' = [scan EXCEPT ![s] =
                    IF db = "throw" THEN RunRaise(@, "persist") ELSE PersistFrom(@, 1)]
            /\ faults' = CountFault(db)
            /\ UNCHANGED ruleMatches
       ELSE \E an \in {AIStage(threats, ai, beh, fault)} :
              \E randoms \in RandomDraws(an) :
                \E res \in {ClassifySync(rules, an, randoms)} :
                  /\ ruleMatches' = RecordRuleMatches(ruleMatches, rules, res.rulesApplied)
                  /\ res.raised => db = "ok"
                  /\ faults' = CountFault(db)
                  /\ scan' = [scan EXCEPT ![s] =
                        IF res.raised THEN RunRaise(@, "classify")
                        ELSE IF db = "throw" THEN RunRaise(@, "persist")
                        ELSE PersistFrom(
                               [@ EXCEPT !.threats =
                                   [i \in 1..Len(res.threats) |-> Columns(res.threats[i])]], 1)]
    /\ UNCHANGED << threatsTable, incidentsTable, clock >>
    /\ UNCHANGED << rules, adminOps, ruleCalls >>
    /\ UNCHANGED varsClassify
    /\ UNCHANGED varsSched
    /\ UNCHANGED varsMore

\* Lines 151-165: the callback of the k-th insert; an error is logged and
\* the loop goes on.
RunPersist(s, out) ==
    /\ scan[s].pc = "persist"
    /\ out \in { "ok", "err" }
    /\ out # "ok" => MayFail
    /\ faults' = CountFault(out)
    /\ threatsTable' =
          IF out = "ok"
          THEN Append(threatsTable, ThreatRow(scan[s].threats[scan[s].k], clock))
          ELSE threatsTable
    /\ scan' = [scan EXCEPT ![s] = PersistFrom(@, @.k + 1)]
    /\ UNCHANGED << incidentsTable, clock >>
    /\ UNCHANGED varsRules
    /\ UNCHANGED varsClassify
    /\ UNCHANGED varsSched
    /\ UNCHANGED varsMore

\* Lines 168-183 and 141, 110-114: db.all answers; an error resolves to [],
\* a raise inside the executor rejects. run() then enters createIncidents.
RunRead(s, out) ==
    /\ scan[s].pc = "read"
    /\ out # "ok" => MayFail
    /\ faults' = CountFault(out)
    /\ scan' = [scan EXCEPT ![s] =
          IF out = "throw" THEN RunRaise(@, "read")
          ELSE CreateIncidentsFrom(
                 [@ EXCEPT !.rows = IF out = "ok" THEN SelectRecent(threatsTable, clock)
                                    ELSE << >>], 1)]
    /\ UNCHANGED << threatsTable, incidentsTable, clock >>
    /\ UNCHANGED varsRules
    /\ UNCHANGED varsClassify
    /\ UNCHANGED varsSched
    /\ UNCHANGED varsMore

\* orchestrateResponse lines 21-35, after the insert of createIncident
\* (221-237) has answered for the threat rows[k]:
\*   error     createIncident resolves null and orchestrateResponse returns
\*             null; createIncidents goes on with the next threat
\*   raise     the promise rejects and the catch of createIncidents (line
\*             118) issues the fallback insert
\*   ok        the row exists; a type without a strategy returns the array
\*             of defaultResponse at once, a type with one has its responses
\*             built and updateIncidentResponse issues the UPDATE
RunCreateIncident(s, out) ==
    /\ scan[s].pc = "createIncident"
    /\ out # "ok" => MayFail
    /\ faults' = CountFault(out)
    /\ LET threat == scan[s].rows[scan[s].k]
           id == Len(incidentsTable) + 1
       IN  /\ incidentsTable' =
                 IF out = "ok" THEN Append(incidentsTable, ActiveIncident(threat))
                 ELSE incidentsTable
           /\ scan' = [scan EXCEPT ![s] =
                 IF out = "err"
                 THEN CreateIncidentsFrom([@ EXCEPT !.orch = OrchCall(threat, ResultNull)],
                                          @.k + 1)
                 ELSE IF out = "throw"
                 THEN [@ EXCEPT !.pc = "fallback", !.orch = OrchCall(threat, ResultRejected)]
                 ELSE IF threat.type \notin StrategyTypes
                 THEN CreateIncidentsFrom(
                        [@ EXCEPT !.incidentId = id,
                                  !.orch = OrchCall(threat, ResultArray(defaultResponse(threat)))],
                        @.k + 1)
                 ELSE [@ EXCEPT !.pc = "update", !.incidentId = id]]
    /\ UNCHANGED << threatsTable, clock >>
    /\ UNCHANGED varsRules
    /\ UNCHANGED varsClassify
    /\ UNCHANGED varsSched
    /\ UNCHANGED varsMore

\* Lines 35-41 and 239-254: the UPDATE answers; an error is logged, and
\* orchestrateResponse returns its object either way. A raise inside the
\* executor rejects into the catch of createIncidents.
RunUpdate(s, out) ==
    /\ scan[s].pc = "update"
    /\ out # "ok" => MayFail
    /\ faults' = CountFault(out)
    /\ LET threat == scan[s].rows[scan[s].k]
           responses == responseStrategies(threat)
       IN  /\ incidentsTable' =
                 IF out = "ok"
                 THEN [incidentsTable EXCEPT ![scan[s].incidentId].response =
                                                 ResponseData(responses)]
                 ELSE incidentsTable
           /\ scan' = [scan EXCEPT ![s] =
                 IF out = "throw"
                 THEN [@ EXCEPT !.pc = "fallback", !.orch = OrchCall(threat, ResultRejected)]
                 ELSE CreateIncidentsFrom(
                        [@ EXCEPT !.orch = OrchCall(threat,
                                       ResultObject(scan[s].incidentId, responses))],
                        @.k + 1)]
    /\ UNCHANGED << threatsTable, clock >>
    /\ UNCHANGED varsRules
    /\ UNCHANGED varsClassify
    /\ UNCHANGED varsSched
    /\ UNCHANGED varsMore

\* threatDetector.js:118-131: the fallback insert answers; an error is
\* logged. getDb() raising at line 121 leaves createIncidents and run().
RunFallback(s, out) ==
    /\ scan[s].pc = "fallback"
    /\ out # "ok" => MayFail
    /\ faults' = CountFault(out)
    /\ LET threat == scan[s].rows[scan[s].k]
       IN  /\ incidentsTable' =
                 IF out = "ok" THEN Append(incidentsTable, OpenIncident(threat))
                 ELSE incidentsTable
           /\ scan' = [scan EXCEPT ![s] =
                 IF out = "throw" THEN RunRaise(@, "incidents")
                 ELSE CreateIncidentsFrom(@, @.k + 1)]
    /\ UNCHANGED << threatsTable, clock >>
    /\ UNCHANGED varsRules
    /\ UNCHANGED varsClassify
    /\ UNCHANGED varsSched
    /\ UNCHANGED varsMore

\* A minute passes: what was written before is out of the window of
\* getPersistedThreats from now on.
Tick ==
    /\ clock < MaxClock
    /\ clock' = clock + 1
    /\ UNCHANGED << threatsTable, incidentsTable, faults, scan >>
    /\ UNCHANGED varsRules
    /\ UNCHANGED varsClassify
    /\ UNCHANGED varsSched
    /\ UNCHANGED varsMore

NextRun ==
    \/ \E s \in Scans : RunStart(s)
    \/ \E s \in Scans : RunCollectFails(s)
    \/ \E s \in Scans, threats \in Collected :
         \E fault \in AIFaults(Len(threats)), db \in { "ok", "throw" } :
           \E ai \in [1..Len(threats) -> BOOLEAN], beh \in [1..Len(threats) -> BOOLEAN] :
              RunDetect(s, threats, ai, beh, fault, db)
    \/ \E s \in Scans, out \in DbOutcomes : RunPersist(s, out)
    \/ \E s \in Scans, out \in DbOutcomes : RunRead(s, out)
    \/ \E s \in Scans, out \in DbOutcomes : RunCreateIncident(s, out)
    \/ \E s \in Scans, out \in DbOutcomes : RunUpdate(s, out)
    \/ \E s \in Scans, out \in DbOutcomes : RunFallback(s, out)
    \/ Tick

SpecRun == Init /\ [][NextRun]_vars

\* Runs that execute strictly one after another: a run takes a step only
\* while the other run has not started or has returned.
Alone(s) == \A o \in Scans \ {s} : scan[o].pc \in { "idle", "done" }

NextRunSequential ==
    \/ \E s \in Scans : Alone(s) /\ RunStart(s)
    \/ \E s \in Scans : Alone(s) /\ RunCollectFails(s)
    \/ \E s \in Scans, threats \in Collected :
         \E fault \in AIFaults(Len(threats)), db \in { "ok", "throw" } :
           \E ai \in [1..Len(threats) -> BOOLEAN], beh \in [1..Len(threats) -> BOOLEAN] :
              Alone(s) /\ RunDetect(s, threats, ai, beh, fault, db)
    \/ \E s \in Scans, out \in DbOutcomes : Alone(s) /\ RunPersist(s, out)
    \/ \E s \in Scans, out \in DbOutcomes : Alone(s) /\ RunRead(s, out)
    \/ \E s \in Scans, out \in DbOutcomes : Alone(s) /\ RunCreateIncident(s, out)
    \/ \E s \in Scans, out \in DbOutcomes : Alone(s) /\ RunUpdate(s, out)
    \/ \E s \in Scans, out \in DbOutcomes : Alone(s) /\ RunFallback(s, out)
    \/ Tick

SpecRunSequential == Init /\ [][NextRunSequential]_vars


\* ------------------------------------------------------------------------
\* CyberSentinelAI.start, startMonitoring, stop and the interval timers
\* (src/index.js:536-650)
\* ------------------------------------------------------------------------
\* Lines 631-632: start() awaits initialize().
Start ==
    /\ startPc = "new"
    /\ startPc' = "initialize"
    /\ UNCHANGED << stopPc, timers, fired, running >>
    /\ UNCHANGED varsRules
    /\ UNCHANGED varsClassify
    /\ UNCHANGED varsRun
    /\ UNCHANGED varsMore

\* Lines 310-313: initialize() rethrows and start() rejects.
InitializeFails ==
    /\ startPc = "initialize"
    /\ startPc' = "failed"
    /\ UNCHANGED << stopPc, timers, fired, running >>
    /\ UNCHANGED varsRules
    /\ UNCHANGED varsClassify
    /\ UNCHANGED varsRun
    /\ UNCHANGED varsMore

\* Lines 633-634, 536-540, 604: initialize() is over and startMonitoring is
\* entered; with monitoring disabled it returns, otherwise it awaits the
\* first runScan().
StartMonitoring(enabled) ==
    /\ startPc = "initialize"
    /\ startPc' = IF enabled THEN "runScan" ELSE "started"
    /\ UNCHANGED << stopPc, timers, fired, running >>
    /\ UNCHANGED varsRules
    /\ UNCHANGED varsClassify
    /\ UNCHANGED varsRun
    /\ UNCHANGED varsMore

\* Lines 604-605: the first scan is over (runScan catches every error).
InitialScanDone ==
    /\ startPc = "runScan"
    /\ startPc' = "runAssetDiscovery"
    /\ UNCHANGED << stopPc, timers, fired, running >>
    /\ UNCHANGED varsRules
    /\ UNCHANGED varsClassify
    /\ UNCHANGED varsRun
    /\ UNCHANGED varsMore

\* Lines 605-606.
InitialDiscoveryDone ==
    /\ startPc = "runAssetDiscovery"
    /\ startPc' = "runCloudValidation"
    /\ UNCHANGED << stopPc, timers, fired, running >>
    /\ UNCHANGED varsRules
    /\ UNCHANGED varsClassify
    /\ UNCHANGED varsRun
    /\ UNCHANGED varsMore

\* Lines 606-611: the first cloud validation is over and the four intervals
\* are set, whatever stop() has done meanwhile.
SetIntervals ==
    /\ startPc = "runCloudValidation"
    /\ startPc' = "started"
    /\ timers' = [t \in Timers |-> "armed"]
    /\ UNCHANGED << stopPc, fired, running >>
    /\ UNCHANGED varsRules
    /\ UNCHANGED varsClassify
    /\ UNCHANGED varsRun
    /\ UNCHANGED varsMore

\* An interval elapses and its callback (runScan, runAssetDiscovery,
\* runCloudValidation, runDLPScan) is started.
TimerFire(t) ==
    /\ timers[t] = "armed"
    /\ fired[t] < MaxFires
    /\ fired' = [fired EXCEPT ![t] = @ + 1]
    /\ running' = [running EXCEPT ![t] = @ + 1]
    /\ UNCHANGED << startPc, stopPc, timers >>
    /\ UNCHANGED varsRules
    /\ UNCHANGED varsClassify
    /\ UNCHANGED varsRun
    /\ UNCHANGED varsMore

\* The callback of a timer runs to its end: stop() cancels nothing that is
\* in flight.
TaskDone(t) ==
    /\ running[t] > 0
    /\ running' = [running EXCEPT ![t] = @ - 1]
    /\ UNCHANGED << startPc, stopPc, timers, fired >>
    /\ UNCHANGED varsRules
    /\ UNCHANGED varsClassify
    /\ UNCHANGED varsRun
    /\ UNCHANGED varsMore

\* Lines 637-645: stop() clears the handles that are set and awaits
\* closeDatabase().
Stop ==
    /\ stopPc = "none"
    /\ stopPc' = "closing"
    /\ timers' = [t \in Timers |-> IF timers[t] = "armed" THEN "cleared" ELSE timers[t]]
    /\ UNCHANGED << startPc, fired, running >>
    /\ UNCHANGED varsRules
    /\ UNCHANGED varsClassify
    /\ UNCHANGED varsRun
    /\ UNCHANGED varsMore

\* Lines 645-650: closeDatabase() has settled (a rejection is caught) and
\* stop() resolves.
StopDone ==
    /\ stopPc = "closing"
    /\ stopPc' = "done"
    /\ UNCHANGED << startPc, timers, fired, running >>
    /\ UNCHANGED varsRules
    /\ UNCHANGED varsClassify
    /\ UNCHANGED varsRun
    /\ UNCHANGED varsMore

NextSched ==
    \/ Start
    \/ InitializeFails
    \/ \E enabled \in BOOLEAN : StartMonitoring(enabled)
    \/ InitialScanDone
    \/ InitialDiscoveryDone
    \/ SetIntervals
    \/ \E t \in Timers : TimerFire(t)
    \/ \E t \in Timers : TaskDone(t)
    \/ Stop
    \/ StopDone

SpecSched == Init /\ [][NextSched]_vars


\* ------------------------------------------------------------------------
\* One scheduled scan: runScan (src/index.js:545-567) around
\* threatDetector.run(), and ConfigManager.set between scans
\* ------------------------------------------------------------------------
\* logAnalyzer.js:525-527: set(key, value) replaces the value in memory.
SetConfig(key, value) ==
    /\ scanPc = "idle"
    /\ config' = [config EXCEPT ![key] = value]
    /\ UNCHANGED << scanPc, scanClassified, scanReturned, scanAnalyzed, alerted,
                    scorerCalls, profilerCalls, baselineProfiles >>
    /\ UNCHANGED varsRules
    /\ UNCHANGED varsClassify
    /\ UNCHANGED varsRun
    /\ UNCHANGED varsSched
    /\ UNCHANGED varsAux

\* index.js:546-547: the timer starts runScan, which awaits run().
ScanStart ==
    /\ scanPc = "idle"
    /\ scanPc' = "run"
    /\ UNCHANGED << config, scanClassified, scanReturned, scanAnalyzed, alerted,
                    scorerCalls, profilerCalls, baselineProfiles >>
    /\ UNCHANGED varsRules
    /\ UNCHANGED varsClassify
    /\ UNCHANGED varsRun
    /\ UNCHANGED varsSched
    /\ UNCHANGED varsAux

\* threatDetector.js:136-147 inside the scan: the collectors resolve with
\* `threats`, classifyThreats runs its AI stage whatever the configuration
\* says (ThreatDetector holds no ConfigManager), the rules and the map run,
\* and run() resolves to the rows read back, or to [] when the
\* classification raised.
ScanRunResolves(threats, ai, beh, fault) ==
    /\ scanPc = "run"
    /\ AnswersAsked(threats, ai, beh, fault)
    /\ IF Len(threats) = 0
       THEN /\ fault = NoFault
            /\ scanClassified' = << >>
            /\ scanReturned' = << >>
            /\ UNCHANGED << ruleMatches, scorerCalls, profilerCalls, baselineProfiles >>
       ELSE \E an \in {AIStage(threats, ai, beh, fault)} :
              \E randoms \in RandomDraws(an) :
                \E res \in {ClassifySync(rules, an, randoms)} :
                  /\ ruleMatches' = RecordRuleMatches(ruleMatches, rules, res.rulesApplied)
                  /\ scorerCalls' = scorerCalls + IF ScorerInvoked(threats, fault) THEN 1 ELSE 0
                  /\ profilerCalls' =
                        profilerCalls + IF ProfilerInvoked(threats, fault) THEN 1 ELSE 0
                  /\ baselineProfiles' =
                        IF ProfilerInvoked(threats, fault)
                        THEN ProfilesAfter(baselineProfiles,
                                           AnalyzeThreats(threats, ai, fault), fault)
                        ELSE baselineProfiles
                  /\ scanClassified' = res.threats
                  /\ scanReturned' = IF res.raised THEN << >> ELSE ScanRows(res.threats)
    /\ scanPc' = "analyze"
    /\ UNCHANGED << config, scanAnalyzed, alerted >>
    /\ UNCHANGED << rules, adminOps, ruleCalls >>
    /\ UNCHANGED varsClassify
    /\ UNCHANGED varsRun
    /\ UNCHANGED varsSched
    /\ UNCHANGED varsAux

\* index.js:554-556.
ShouldAlert(threat) == shouldAlertOnSeverity(config, threat.severity)

\* index.js:548-566: with AI enabled the scorer is run on the returned rows
\* (ai[i] is its answer for row i; `fails` is the scorer raising, which the
\* catch of runScan logs); the rows that pass shouldAlertOnSeverity are
\* handed to handleAlerts.
ScanFinish(ai, fails) ==
    /\ scanPc = "analyze"
    /\ ~isAIEnabled(config) => (~fails /\ \A i \in 1..Len(scanReturned) : ~ai[i])
    /\ fails => Len(scanReturned) > 0
    /\ fails => \A i \in 1..Len(scanReturned) : ~ai[i]
    /\ scorerCalls' = scorerCalls + IF isAIEnabled(config) THEN 1 ELSE 0
    /\ scanAnalyzed' =
          IF fails THEN << >>
          ELSE [i \in 1..Len(scanReturned) |->
                   [scanReturned[i] EXCEPT !.aiAnomaly = ai[i]]]
    /\ alerted' = SelectSeq(scanAnalyzed', ShouldAlert)
    /\ scanPc' = "done"
    /\ UNCHANGED << config, scanClassified, scanReturned, profilerCalls, baselineProfiles >>
    /\ UNCHANGED varsRules
    /\ UNCHANGED varsClassify
    /\ UNCHANGED varsRun
    /\ UNCHANGED varsSched
    /\ UNCHANGED varsAux

NextScan ==
    \/ \E key \in ConfigKeys, value \in BOOLEAN : SetConfig(key, value)
    \/ ScanStart
    \/ \E threats \in ScanCollected :
         \E fault \in AIFaults(Len(threats)) :
           \E ai \in [1..Len(threats) -> BOOLEAN], beh \in [1..Len(threats) -> BOOLEAN] :
              ScanRunResolves(threats, ai, beh, fault)
    \/ \E fails \in BOOLEAN :
         \E ai \in [1..Len(scanReturned) -> BOOLEAN] : ScanFinish(ai, fails)

SpecScan == Init /\ [][NextScan]_vars

\* ------------------------------------------------------------------------
\* Calls of InfrastructureProtection.assessThreatToAsset
\* (src/core/logAnalyzer.js:237-263)
\* ------------------------------------------------------------------------
AssessCall(threat, asset) ==
    /\ assessment' = assessThreatToAsset(threat, asset)
    /\ UNCHANGED varsRules
    /\ UNCHANGED varsClassify
    /\ UNCHANGED varsRun
    /\ UNCHANGED varsSched
    /\ UNCHANGED << varsScan, baselineProfiles >>
    /\ UNCHANGED varsExplain
    /\ UNCHANGED varsLate

NextAsset ==
    \E threat \in AssessedThreats, asset \in CriticalAssets : AssessCall(threat, asset)

SpecAsset == Init /\ [][NextAsset]_vars

\* ------------------------------------------------------------------------
\* Direct calls of BehavioralAnalytics.updateBaselineProfile
\* (src/unnamed/part_001:43-57), one observation each
\* ------------------------------------------------------------------------
Observe(sourceIp, protocol) ==
    /\ SumCounts(baselineProfiles, DOMAIN baselineProfiles) < MaxObserved
    /\ LET n == ProfileCount(baselineProfiles, << sourceIp, protocol >>) + 1
           threat == ObservedThreat(sourceIp, protocol, n)
       IN  baselineProfiles' = updateBaselineProfile(baselineProfiles, sourceIp, threat)
    /\ UNCHANGED varsRules
    /\ UNCHANGED varsClassify
    /\ UNCHANGED varsRun
    /\ UNCHANGED varsSched
    /\ UNCHANGED varsScan
    /\ UNCHANGED varsAux

NextProfile ==
    \E sourceIp \in ProfiledSources, protocol \in ProfiledProtocols : Observe(sourceIp, protocol)

SpecProfile == Init /\ [][NextProfile]_vars

\* ------------------------------------------------------------------------
\* Calls of ExplainabilityEngine.explainPrediction (src/unnamed/part_000:11-35)
\* ------------------------------------------------------------------------
ExplainedSoFar == explainCalls["10"] + explainCalls["192"]

ExplainCall(sourceIp) ==
    /\ ExplainedSoFar < MaxExplained
    /\ FirstOctet(sourceIp) = "192" => explainCalls["192"] < MaxOtherOctet
    /\ LET threat == ExplainedThreat(sourceIp, ExplainedSoFar + 1)
           result == Explanation(biasMetrics, threat)
       IN  /\ biasMetrics' = MetricsAfter(biasMetrics, threat)
           /\ predictionExplanations' = PushExplanation(predictionExplanations, result)
           /\ explanation' = result
    /\ explainCalls' = [explainCalls EXCEPT ![FirstOctet(sourceIp)] = @ + 1]
    /\ UNCHANGED varsRules
    /\ UNCHANGED varsClassify
    /\ UNCHANGED varsRun
    /\ UNCHANGED varsSched
    /\ UNCHANGED << varsScan, baselineProfiles >>
    /\ UNCHANGED varsAsset
    /\ UNCHANGED varsLate

NextExplain ==
    \E sourceIp \in ExplainedSources : ExplainCall(sourceIp)

SpecExplain == Init /\ [][NextExplain]_vars

\* ------------------------------------------------------------------------
\* The end of classifyThreats (threatDetector.js:102-105): the batch is
\* handed to protectCriticalAssets and each threat gets its share
\* ------------------------------------------------------------------------
ProtectCall(threats) ==
    /\ LET actions == protectCriticalAssets(threats)
       IN  protection' =
              [threats |-> threats, actions |-> actions,
               attached |-> [i \in 1..Len(threats) |-> AttachedTo(actions, threats[i], i)]]
    /\ UNCHANGED varsRules
    /\ UNCHANGED varsClassify
    /\ UNCHANGED varsRun
    /\ UNCHANGED varsSched
    /\ UNCHANGED << varsScan, baselineProfiles >>
    /\ UNCHANGED << varsAsset, varsExplain, varsFeature >>

NextProtect ==
    \E threats \in SeqUpTo(ProtectedCandidates, MaxProtected), persisted \in BOOLEAN :
        ProtectCall(WithIds(threats, persisted))

SpecProtect == Init /\ [][NextProtect]_vars
\* ------------------------------------------------------------------------
\* Calls of explainFeatureContribution (src/unnamed/part_000:37-66)
\* ------------------------------------------------------------------------
ExplainFeaturesCall(features) ==
    /\ featureAnalysis' =
          [called |-> TRUE, features |-> features,
           result |-> explainFeatureContribution(features)]
    /\ UNCHANGED varsRules
    /\ UNCHANGED varsClassify
    /\ UNCHANGED varsRun
    /\ UNCHANGED varsSched
    /\ UNCHANGED << varsScan, baselineProfiles >>
    /\ UNCHANGED << varsAsset, varsExplain, varsProtect >>

NextFeatures ==
    \E features \in SeqUpTo(FeatureValues, MaxFeatures) : ExplainFeaturesCall(features)

SpecFeatures == Init /\ [][NextFeatures]_vars


\* ------------------------------------------------------------------------
\* Claims about classifyThreats and the rules engine
\* ------------------------------------------------------------------------
\* The i-th classified threat was made from the i-th analyzed threat, whose
\* severity is the one the candidate came in with (the AI stage sets flags only).

\* C1 (as claimed): for every threat that classifyThreats returns, under every
\* rule registry the administration surface can build, the output severity is
\* not lower than the input severity in the order Low < Medium < High < Critical.
C1_SeverityNeverLowered ==
    outcome = "returned" =>
        \A i \in 1..Len(classified) :
            SeverityRank(classified[i].severity) >= SeverityRank(analyzed[i].severity)

\* The fields classifyThreats never writes: they tell the candidates apart.
SameCandidate(a, b) ==
    /\ a.type = b.type
    /\ a.description = b.description
    /\ a.source_ip = b.source_ip
    /\ a.port = b.port

\* C2 (as claimed): classifyThreats returns exactly one classified threat per
\* candidate of its input batch, in input order, whichever threats the anomaly
\* scorer and the behavioural profiler flag.
C2_OnePerCandidate ==
    outcome = "returned" =>
        /\ Len(classified) = Len(batch)
        /\ \A i \in 1..Len(batch) : SameCandidate(classified[i], batch[i])

\* C3: a threat carrying the anomaly flag or the behavioural-anomaly flag is
\* promoted by exactly one level when its severity after the rules is Low or
\* Medium, is left unchanged when it is High or Critical, and gets aiPrediction
\* 'AI-Detected Anomaly'; a threat with neither flag keeps its post-rules
\* severity and gets 'Normal Pattern'.
C3_EscalationPolicy ==
    outcome = "returned" =>
        \A i \in 1..Len(classified) :
            LET post == rulesApplied[i]
                out == classified[i]
            IN  IF post.aiAnomaly \/ post.isBehavioralAnomaly
                THEN /\ out.aiPrediction = "AI-Detected Anomaly"
                     /\ post.severity = "Low" => out.severity = "Medium"
                     /\ post.severity = "Medium" => out.severity = "High"
                     /\ post.severity \in {"High", "Critical"} => out.severity = post.severity
                ELSE /\ out.aiPrediction = "Normal Pattern"
                     /\ out.severity = post.severity

\* C3 witness: one returned batch holds a flagged threat promoted from Medium
\* to High and an unflagged threat left as it was; another case of the claim,
\* a flagged threat the DDoS rule made Critical, is C3_WitnessCritical.
C3_Witness ==
    /\ outcome = "returned"
    /\ \E i, j \in 1..Len(classified) :
        /\ rulesApplied[i].aiAnomaly
        /\ rulesApplied[i].severity = "Medium"
        /\ classified[i].severity = "High"
        /\ ~rulesApplied[j].aiAnomaly /\ ~rulesApplied[j].isBehavioralAnomaly
        /\ classified[j].aiPrediction = "Normal Pattern"

C3_WitnessCritical ==
    /\ outcome = "returned"
    /\ \E i \in 1..Len(classified) :
        /\ rulesApplied[i].isBehavioralAnomaly
        /\ rulesApplied[i].severity = "Critical"
        /\ classified[i].severity = "Critical"

\* C5 (as claimed): two applyRules calls on the same threat under the same
\* enabled rules produce the same appliedRules sequence and the same severity.
C5_ApplyRulesDeterministic ==
    \A i, j \in 1..Len(ruleCalls) :
        (ruleCalls[i].input = ruleCalls[j].input /\ ruleCalls[i].enabled = ruleCalls[j].enabled)
            => /\ ruleCalls[i].output.appliedRules = ruleCalls[j].output.appliedRules
               /\ ruleCalls[i].output.severity = ruleCalls[j].output.severity

\* ------------------------------------------------------------------------
\* Claims about ThreatDetector.run, the orchestrator and the store
\* ------------------------------------------------------------------------
\* C4: ThreatDetector.run never rejects: whenever a collector, the
\* classification, the persistence step or the incident step raises, run
\* resolves, and to an empty list.
C4_RunNeverRejects ==
    \A s \in Scans :
        /\ scan[s].settled # "rejected"
        /\ scan[s].raisedAt # "none" =>
              (scan[s].pc = "done" /\ scan[s].settled = "resolved" /\ scan[s].value = << >>)

\* C4 witness: one scan has read threats, had orchestrateResponse reject and
\* the fallback raise, and resolved to []; the other scan resolved to []
\* after its classification raised.
C4_Witness ==
    \E s, t \in Scans :
        /\ scan[s].raisedAt = "incidents"
        /\ scan[s].rows # << >>
        /\ scan[s].settled = "resolved" /\ scan[s].value = << >>
        /\ scan[t].raisedAt = "classify"
        /\ scan[t].settled = "resolved" /\ scan[t].value = << >>

\* The other two places of C4: a collector, and the persistence step.
C4_WitnessCollectPersist ==
    \E s, t \in Scans :
        /\ scan[s].raisedAt = "collect" /\ scan[s].value = << >>
        /\ scan[t].raisedAt = "persist" /\ scan[t].value = << >>

\* C6 (as claimed): when the store reports an error to createIncident for a
\* High/Critical threat, so that orchestrateResponse ends with null for that
\* threat, createIncidents next attempts the fallback insert for it.
C6_FallbackAfterFailedInsert ==
    [][\A s \in Scans :
          ( /\ scan[s].pc = "createIncident"
            /\ scan'[s].orch # scan[s].orch
            /\ scan'[s].orch.result = ResultNull )
          => scan'[s].pc = "fallback"]_vars

\* C7 (as claimed): a failing stage of classifyThreats is caught at that
\* stage, so that classifyThreats returns and run goes on to persist the
\* batch: no run is aborted by its classification.
C7_StageFailureCaught ==
    \A s \in Scans : scan[s].raisedAt # "classify"

\* C8 (as claimed): for a threat whose type has no strategy and whose
\* incident is created, orchestrateResponse returns an object {incidentId,
\* responses, status} whose responses are log_event, then create_alert at the
\* threat's severity.
C8_DefaultResponseShape ==
    \A s \in Scans :
        LET call == scan[s].orch
        IN  ( /\ call.threat.id # 0
              /\ call.threat.type \notin StrategyTypes
              /\ call.result.shape \notin { "none", "null", "rejected" } )
            => /\ call.result.shape = "object"
               /\ call.result.incidentId # 0
               /\ call.result.status = "initiated"
               /\ call.result.responses =
                     << ResponseAction("log_event", Undefined),
                        ResponseAction("create_alert", call.threat.severity) >>

\* The incident rows createIncident wrote for threat id t, and the scans
\* whose getPersistedThreats returned threat id t.
ActiveIncidents(t) ==
    { i \in 1..Len(incidentsTable) :
        incidentsTable[i].threat_id = t /\ incidentsTable[i].status = "Active" }

Readers(t) ==
    { s \in Scans : \E i \in 1..Len(scan[s].rows) : scan[s].rows[i].id = t }

\* C9: scans are not mutually exclusive; each scan that re-reads a persisted
\* High/Critical threat creates an Incident row for it, one per scan, so a
\* threat id has as many Active rows as scans have got to it, and only
\* High/Critical threats have any. Two interleaved scans reach two rows for
\* one threat id (C9_Witness).
C9_IncidentPerReadingScan ==
    \A t \in 1..Len(threatsTable) :
        /\ Cardinality(ActiveIncidents(t)) <= Cardinality(Readers(t))
        /\ ActiveIncidents(t) # {} => threatsTable[t].severity \in { "High", "Critical" }

\* C9 witness: both scans are in flight, each suspended in the UPDATE of the
\* incident it created for the same threat id, and the incidents table holds
\* two Active rows for that id.
C9_Witness ==
    \E t \in 1..Len(threatsTable) :
        /\ Cardinality(ActiveIncidents(t)) = 2
        /\ \A s \in Scans :
              /\ scan[s].pc = "update"
              /\ scan[s].rows[scan[s].k].id = t
              /\ incidentsTable[scan[s].incidentId].threat_id = t
        /\ scan["timer"].incidentId # scan["manual"].incidentId

\* ------------------------------------------------------------------------
\* Claims about start / stop
\* ------------------------------------------------------------------------
\* C10 (as claimed): once stop() has completed, no timer starts a threat
\* scan, asset discovery, cloud validation or DLP scan any more, at
\* whichever point of start() / startMonitoring() stop() was called.
C10_NoTimerAfterStop ==
    [][stopPc = "done" => fired' = fired]_vars

\* ------------------------------------------------------------------------
\* Claims about the scheduled scan and the memory of the AI components
\* ------------------------------------------------------------------------
\* C11 (as claimed): when ai_enabled is false, a scan calls neither the
\* anomaly scorer nor the behavioural profiler: no classified threat carries
\* an anomaly or behavioural-anomaly flag or the label of a promotion by one,
\* and no behavioural profile exists.
C11_AIDisabledNoAI ==
    (scanPc \in { "analyze", "done" } /\ ~config.ai_enabled) =>
        /\ scorerCalls = 0
        /\ profilerCalls = 0
        /\ DOMAIN baselineProfiles = {}
        /\ \A i \in 1..Len(scanClassified) :
              /\ ~scanClassified[i].aiAnomaly
              /\ ~scanClassified[i].isBehavioralAnomaly
              /\ scanClassified[i].aiPrediction # "AI-Detected Anomaly"


\* Whether an entry of rule id was recorded on a result of applyRules.
HasEntry(result, id) ==
    \E e \in 1..Len(result.appliedRules) : result.appliedRules[e].ruleId = id

\* The entries of rule id recorded on a result of applyRules.
EntriesOf(result, id) ==
    { e \in 1..Len(result.appliedRules) : result.appliedRules[e].ruleId = id }

\* The enabled rules of that id whose condition holds on the threat and
\* whose action does not raise.
MatchingRules(id, threat) ==
    { k \in 1..Len(rules) :
        /\ rules[k].id = id
        /\ rules[k].enabled
        /\ EvalCondition(rules[k].cond, threat, FALSE) = "true"
        /\ ~ExecuteRaises(rules[k].action) }

\* The rule ids none of whose conditions reads what earlier rules modify or
\* draws a random number.
SteadyIds ==
    { rules[j].id : j \in 1..Len(rules) } \
        { rules[j].id :
            j \in { k \in 1..Len(rules) : rules[k].cond \in {"ddos", "custom_critical"} } }

\* C12: in applyRules an exception of one rule's condition or action skips
\* only that rule for that threat. Every threat handed in comes back, and on
\* each of them every enabled rule whose condition does not read what earlier
\* rules modify is recorded exactly when its condition holds and its action
\* does not raise, whatever the rules before it did.
C12_RuleErrorSkipsOnlyThatRule ==
    (pc = "done" /\ batch # << >>) =>
        /\ Len(rulesApplied) = Len(analyzed)
        /\ \A i \in 1..Len(analyzed) : \A id \in SteadyIds :
              Cardinality(EntriesOf(rulesApplied[i], id)) =
                 Cardinality(MatchingRules(id, analyzed[i]))

\* A batch whose first threat makes the conditions of two rules raise before
\* the brute-force rule matches it, and whose second threat is matched too.
C12_Witness ==
    /\ pc = "done"
    /\ Len(analyzed) = 2
    /\ analyzed[1].description = Undefined
    /\ EvalCondition("privilege", analyzed[1], FALSE) = "throw"
    /\ HasEntry(rulesApplied[1], "rule_brute_force")
    /\ HasEntry(rulesApplied[2], "rule_privilege_escalation")

\* The same when it is the action of the first rule that raises.
C12_WitnessAction ==
    /\ pc = "done"
    /\ Len(analyzed) = 2
    /\ rules[1].enabled /\ ExecuteRaises(rules[1].action)
    /\ EvalCondition(rules[1].cond, analyzed[1], TRUE) = "true"
    /\ ~HasEntry(rulesApplied[1], rules[1].id)
    /\ HasEntry(rulesApplied[2], "rule_privilege_escalation")


DatabaseCase ==
    /\ assessment.outcome # "none"
    /\ assessment.asset = DatabaseAsset
    /\ assessment.threat.port \in { NumPort(3306), StrPort(3306) }
    /\ assessment.threat.severity = "High"

\* C14 as stated: a High threat on port 3306 assessed against the database
\* asset is a direct threat with a score before the cap of at least
\* 0.5 + 0.3 + 0.75, whatever its type.
C14_AtLeastFullScore ==
    DatabaseCase =>
        /\ assessment.outcome = "returned"
        /\ assessment.isDirectThreat
        /\ ~assessment.uncapped.nan
        /\ assessment.uncapped.val >= 50 + 30 + 75

\* C14: a High threat on port 3306 that has a type, assessed against the
\* database asset, is a direct threat; its score before the cap is
\* 0.5 + 0.3 + 0.75 when the type contains a threat type of databases and
\* 0.5 + 0.75 otherwise, and the returned score is 1.0 with priority
\* immediate either way. A threat without type makes the call raise.
C14_DirectThreatScore ==
    DatabaseCase =>
        IF assessment.threat.type = Undefined
        THEN assessment.outcome = "raised"
        ELSE /\ assessment.outcome = "returned"
             /\ assessment.isDirectThreat
             /\ assessment.isTypicalThreat =
                    (assessment.threat.type \in {"SQL Injection", "Network Intrusion"})
             /\ assessment.uncapped =
                    Num(IF assessment.isTypicalThreat THEN 50 + 30 + 75 ELSE 50 + 75)
             /\ assessment.riskScore = Num(100)
             /\ assessment.priority = "immediate"

\* A DDoS threat with the port given as the string "3306": direct, not
\* typical, 1.25 before the cap.
C14_Witness ==
    /\ DatabaseCase
    /\ assessment.outcome = "returned"
    /\ assessment.threat.type = "DDoS"
    /\ assessment.threat.port = StrPort(3306)
    /\ assessment.isDirectThreat
    /\ assessment.uncapped = Num(125)

\* C19: assessThreatToAsset returns a riskScore within [0,1] for every
\* combination of port match, type match and severity, known or not.
C19_RiskScoreInUnitInterval ==
    assessment.outcome = "returned" =>
        /\ ~assessment.riskScore.nan
        /\ assessment.riskScore.val >= 0
        /\ assessment.riskScore.val <= 100


\* ------------------------------------------------------------------------
\* Claims about the behavioural profiles
\* ------------------------------------------------------------------------
\* C15: for every profile key (source address, protocol), after any number
\* of observations the retained history has at most 100 entries, and beyond
\* 100 it is the oldest entry that is evicted: the history is the last
\* min(count, 100) observations of the key, in the order they were made.
C15_PatternsBounded ==
    \A key \in DOMAIN baselineProfiles :
        LET profile == baselineProfiles[key]
            n == Len(profile.patterns)
        IN  /\ n <= 100
            /\ n = (IF profile.count < 100 THEN profile.count ELSE 100)
            /\ \A i \in 1..n : profile.patterns[i].id = profile.count - n + i

\* A key observed 102 times: its history starts at the third observation.
C15_Witness ==
    \E key \in DOMAIN baselineProfiles :
        /\ baselineProfiles[key].count = 102
        /\ Len(baselineProfiles[key].patterns) = 100
        /\ baselineProfiles[key].patterns[1].id = 3
        /\ baselineProfiles[key].patterns[100].id = 102


\* ------------------------------------------------------------------------
\* Claims about the explanation history and the bias indicators
\* ------------------------------------------------------------------------
\* C16: after any sequence of explainPrediction calls the history has at
\* most 1000 entries and holds the most recent explanations in call order:
\* a call over the cap removes the oldest entry.
C16_HistoryBounded ==
    LET n == Len(predictionExplanations)
    IN  /\ n <= 1000
        /\ n = (IF ExplainedSoFar < 1000 THEN ExplainedSoFar ELSE 1000)
        /\ \A i \in 1..n : predictionExplanations[i].threatId = ExplainedSoFar - n + i

\* After 1002 calls the history runs from the third explanation to the last.
C16_Witness ==
    /\ ExplainedSoFar = 1002
    /\ Len(predictionExplanations) = 1000
    /\ predictionExplanations[1].threatId = 3
    /\ predictionExplanations[1000].threatId = 1002

\* Whether the explanation returned last carries a biased source indicator.
SourceBiasReported ==
    \E i \in 1..Len(explanation.biasRisk.indicators) :
        explanation.biasRisk.indicators[i].type = "source_ip_concentration"

\* C17: the source indicator of the n-th explainPrediction call made with
\* one first octet is biased exactly when n > 50.
C17_SourceBiasAfterFifty ==
    explanation # NoExplanation =>
        (SourceBiasReported <=> explainCalls[FirstOctet(explanation.sourceIp)] > 50)

\* The 51st call with first octet 10, after calls with another octet and with
\* another address of the same octet: the first to report the bias.
C17_Witness ==
    /\ explanation # NoExplanation
    /\ explanation.sourceIp = "10.0.0.5"
    /\ explainCalls["10"] = 51
    /\ explainCalls["192"] = 2
    /\ SourceBiasReported
    /\ explanation.biasRisk.riskDetected


\* ------------------------------------------------------------------------
\* Claims about single scenarios of classifyThreats and orchestrateResponse
\* ------------------------------------------------------------------------
\* The engine holds the eight default rules as registered, enabled or not.
DefaultCatalog ==
    /\ Len(rules) = Len(DefaultRules)
    /\ \A j \in 1..Len(rules) : [rules[j] EXCEPT !.enabled = TRUE] = DefaultRules[j]

\* The i-th analyzed threat is the benign one, with no anomaly flag set.
BenignUnflagged(i) ==
    /\ SameCandidate(analyzed[i], BenignThreat)
    /\ analyzed[i].severity = "Low"
    /\ ~analyzed[i].aiAnomaly
    /\ ~analyzed[i].isBehavioralAnomaly

\* C18: a threat {severity Low, type Benign, description 'ok', port 9999}
\* with no anomaly flag set matches no default rule, keeps severity Low
\* through classifyThreats and receives 'Log for reference'.
C18_BenignStaysLow ==
    (outcome = "returned" /\ DefaultCatalog) =>
        \A i \in 1..Len(analyzed) :
            BenignUnflagged(i) =>
                /\ rulesApplied[i].appliedRules = << >>
                /\ classified[i].severity = "Low"
                /\ classified[i].aiPrediction = "Normal Pattern"
                /\ classified[i].recommendation = "Log for reference"

\* A returned batch under the default rules, all enabled, with the benign
\* threat next to a threat that a rule does match.
C18_Witness ==
    /\ outcome = "returned"
    /\ rules = DefaultRules
    /\ \E i, j \in 1..Len(analyzed) :
        /\ BenignUnflagged(i)
        /\ classified[i].recommendation = "Log for reference"
        /\ rulesApplied[j].appliedRules # << >>

\* The action kinds of a list of responses, in order.
ActionKinds(responses) == [i \in 1..Len(responses) |-> responses[i].action]

\* C20: for a threat of type DDoS whose incident is created,
\* orchestrateResponse yields exactly 4 response actions with kinds
\* rate_limiting, ip_blocking, traffic_filtering, alert_notification, in that
\* order: every call on a DDoS threat that returns something other than null
\* returns the object carrying the incident and these four.
C20_DDoSResponses ==
    \A s \in Scans :
        (scan[s].orch.threat.type = "DDoS"
            /\ scan[s].orch.result.shape \notin { "none", "null", "rejected" }) =>
            /\ scan[s].orch.result.shape = "object"
            /\ scan[s].orch.result.status = "initiated"
            /\ scan[s].orch.result.incidentId \in 1..Len(incidentsTable)
            /\ incidentsTable[scan[s].orch.result.incidentId].threat_id = scan[s].orch.threat.id
            /\ ActionKinds(scan[s].orch.result.responses) =
                   << "rate_limiting", "ip_blocking", "traffic_filtering",
                      "alert_notification" >>

\* A scan whose orchestrateResponse call on a DDoS threat has returned, the
\* incident of the threat being in the store.
C20_Witness ==
    \E s \in Scans :
        /\ scan[s].orch.threat.type = "DDoS"
        /\ scan[s].orch.result.shape = "object"
        /\ Len(scan[s].orch.result.responses) = 4
        /\ incidentsTable[scan[s].orch.result.incidentId].status = "Active"


\* ------------------------------------------------------------------------
\* Claims about the last steps of classifyThreats
\* ------------------------------------------------------------------------
\* C21: after classifyThreats the asset-risk hits attached to each threat are
\* exactly the protection actions produced by assessing that same threat and
\* none produced by another threat of the batch, also for threats that have
\* no id yet.
C21_OwnHitsOnly ==
    \A i \in 1..Len(protection.threats) :
        /\ \A k \in 1..Len(protection.attached[i]) : protection.attached[i][k].origin = i
        /\ \A k \in 1..Len(protection.actions) :
              protection.actions[k].origin = i =>
                 \E m \in 1..Len(protection.attached[i]) :
                    protection.attached[i][m] = protection.actions[k]


\* ------------------------------------------------------------------------
\* Claims about the incident records
\* ------------------------------------------------------------------------
\* The response plan built for a persisted threat.
PlanOf(threat) ==
    IF threat.type \in StrategyTypes THEN responseStrategies(threat)
    ELSE defaultResponse(threat)

\* The orchestrateResponse call that created incident n has not returned yet.
InFlight(n) ==
    \E s \in Scans : scan[s].pc = "update" /\ scan[s].incidentId = n

\* C22: every incident created by orchestrateResponse is Active with its
\* response plan attached when the call returns, for known and for unknown
\* threat types alike; stated for the runs in which the store never fails.
C22_PlanAttached ==
    faults = 0 =>
        \A n \in 1..Len(incidentsTable) :
            /\ incidentsTable[n].status # "Closed"
            /\ InFlight(n) \/
                  /\ incidentsTable[n].status = "Active"
                  /\ incidentsTable[n].response.actions =
                        PlanOf(threatsTable[incidentsTable[n].threat_id])


\* ------------------------------------------------------------------------
\* Claims about the explanation attached by classifyThreats
\* ------------------------------------------------------------------------
\* C23: the explanation attached to a classified threat is built from the
\* threat's final severity: a threat whose final severity is High or
\* Critical carries the high-severity risk factor, and the low-severity
\* mitigating factor appears only on a threat whose final severity is Low.
C23_ExplainedFinalSeverity ==
    outcome = "returned" =>
        \A i \in 1..Len(classified) :
            /\ classified[i].severity \in { "High", "Critical" } =>
                  "High Severity Classification" \in classified[i].explainability.riskFactors
            /\ "Low Severity" \in classified[i].explainability.mitigatingFactors =>
                  classified[i].severity = "Low"


\* ------------------------------------------------------------------------
\* Claims about the rule pass of applyRules
\* ------------------------------------------------------------------------
\* The threat as the rule at position j of the enabled rules sees it: the
\* input with the modifications of the matching rules before j merged in.
RuleMatches(rule, seen, random) ==
    /\ EvalCondition(rule.cond, seen, random) = "true"
    /\ ~ExecuteRaises(rule.action)

RECURSIVE SeenBy(_, _, _, _)
SeenBy(enabled, j, input, random) ==
    IF j = 1 THEN input
    ELSE LET before == SeenBy(enabled, j - 1, input, random)
         IN  IF RuleMatches(enabled[j - 1], before, random)
             THEN ExecuteAction(enabled[j - 1].action, before)
             ELSE before

MatchingPositions(enabled, input, random) ==
    { j \in 1..Len(enabled) : RuleMatches(enabled[j], SeenBy(enabled, j, input, random), random) }

\* The k-th smallest element of a set of positions.
KthOf(positions, k) ==
    CHOOSE j \in positions : Cardinality({ m \in positions : m < j }) = k - 1

\* One entry per matching enabled rule, in registration order.
OneEntryPerMatch(call) ==
    \E random \in BOOLEAN :
        LET hit == MatchingPositions(call.enabled, call.input, random)
        IN  /\ Len(call.output.appliedRules) = Cardinality(hit)
            /\ \A k \in 1..Len(call.output.appliedRules) :
                  call.output.appliedRules[k] = AppliedEntry(call.enabled[KthOf(hit, k)])

RECURSIVE EntriesRecorded(_, _)
EntriesRecorded(calls, id) ==
    IF calls = << >> THEN 0
    ELSE CountEntries(Head(calls).output.appliedRules, id) + EntriesRecorded(Tail(calls), id)

RecordedIds ==
    UNION { { ruleCalls[c].output.appliedRules[k].ruleId :
                k \in 1..Len(ruleCalls[c].output.appliedRules) } : c \in 1..Len(ruleCalls) }

\* C24: applyRules evaluates each enabled rule once per threat in
\* registration order, each condition seeing the threat as modified by the
\* earlier matching rules of the same pass; appliedRules holds exactly one
\* entry per matching rule in that order, a disabled rule contributes none,
\* and a rule's match counter grows by exactly one per entry recorded for it.
C24_OneEntryPerMatchInOrder ==
    /\ \A c \in 1..Len(ruleCalls) : OneEntryPerMatch(ruleCalls[c])
    /\ \A id \in (DOMAIN ruleMatches) \cup RecordedIds :
          /\ id \in DOMAIN ruleMatches
          /\ ruleMatches[id] = EntriesRecorded(ruleCalls, id)

\* A call in which the added rule matched only because the DDoS rule before
\* it had raised the severity to Critical, with a disabled rule left out.
C24_Witness ==
    \E c \in 1..Len(ruleCalls) :
        /\ ruleCalls[c].input.severity = "High"
        /\ Len(ruleCalls[c].output.appliedRules) = 2
        /\ ruleCalls[c].output.appliedRules[1].ruleId = "rule_ddos_detection"
        /\ ruleCalls[c].output.appliedRules[2].ruleId = "rule_confirm_critical"
        /\ ruleMatches["rule_confirm_critical"] = 1

\* A call made while a rule whose condition holds on the input is disabled.
C24_WitnessDisabled ==
    \E c \in 1..Len(ruleCalls) :
        /\ StrictEqNum(ruleCalls[c].input.port, 22)
        /\ \A j \in 1..Len(ruleCalls[c].enabled) : ruleCalls[c].enabled[j].id # "rule_brute_force"
        /\ ~HasEntry(ruleCalls[c].output, "rule_brute_force")


\* The brute-force rule as registered, among the rules a call ran under.
BruteForceRuleIn(enabled) ==
    \E j \in 1..Len(enabled) : enabled[j] = DefaultRules[4]

\* C25: applyRules records a block_ip entry for every threat whose port is
\* 22, 3389 or 5900, both when the port is a number and when it is the
\* numeric string the network collector puts on its Suspicious Connection
\* threats, as the critical-service rule matches its ports in either form.
C25_BlockIpForEitherPortForm ==
    \A c \in 1..Len(ruleCalls) :
        (/\ BruteForceRuleIn(ruleCalls[c].enabled)
         /\ ParseInt(ruleCalls[c].input.port) \in {22, 3389, 5900}) =>
            \E k \in 1..Len(ruleCalls[c].output.appliedRules) :
                ruleCalls[c].output.appliedRules[k] =
                    [ruleId |-> "rule_brute_force", action |-> "block_ip"]


\* ------------------------------------------------------------------------
\* Claims about explainFeatureContribution
\* ------------------------------------------------------------------------
\* The positions of the features above 0.4, and of those retained.
AboveMedium(features) == { i \in 1..Len(features) : features[i] > MediumImpactAbove }

Retained(result) ==
    { result.topContributors[k].feature + 1 : k \in 1..Len(result.topContributors) }

\* C27: explainFeatureContribution retains, among the features whose value
\* is above 0.4, the 5 with the largest values, and the summary names the
\* feature with the largest value as the primary indicator, whatever the
\* position of that feature in the vector.
C27_LargestFiveRetained ==
    featureAnalysis.called =>
        LET features == featureAnalysis.features
            result == featureAnalysis.result
            above == AboveMedium(features)
        IN  /\ Retained(result) \subseteq above
            /\ Cardinality(Retained(result)) =
                  (IF Cardinality(above) < TopContributors
                   THEN Cardinality(above) ELSE TopContributors)
            /\ \A i \in Retained(result), j \in above \ Retained(result) :
                  features[i] >= features[j]
            /\ above # {} =>
                  /\ result.summary.significant
                  /\ \A j \in above : features[result.summary.primary + 1] >= features[j]


\* ------------------------------------------------------------------------
\* Claims about the transparency report and getExplanations
\* ------------------------------------------------------------------------
\* The threshold explainPrediction applies to a counter of that kind.
OwnThreshold(key) ==
    CASE key[1] = "source" -> SourceBiasAbove
      [] key[1] = "port" -> PortBiasAbove
      [] key[1] = "type" -> TypeBiasAbove

\* C26: the bias indicators listed by generateTransparencyReport are exactly
\* the counters that exceed their own threshold (source octet > 50, port >
\* 100, threat type > 80), the counters explainPrediction reports as biased.
C26_ReportMatchesOwnThresholds ==
    DetectedBiases(biasMetrics) =
        { key \in DOMAIN biasMetrics : biasMetrics[key] > OwnThreshold(key) }

\* C28: getExplanations(N) returns the min(N, history length) most recent
\* explanations, newest first, for every N >= 0; it never returns more than
\* N entries.
C28_AtMostLimitNewestFirst ==
    \A limit \in 0..MaxLimit :
        LET returned == getExplanations(predictionExplanations, limit)
            held == Len(predictionExplanations)
        IN  /\ Len(returned) = (IF limit < held THEN limit ELSE held)
            /\ \A k \in 1..Len(returned) :
                  returned[k] = predictionExplanations[held - k + 1]


\* ------------------------------------------------------------------------
\* Claims about runs one after another
\* ------------------------------------------------------------------------
IncidentsOf(t) == { i \in 1..Len(incidentsTable) : incidentsTable[i].threat_id = t }

\* C29: when runs execute strictly one after another, every persisted
\* threat of severity High or Critical gets at most one incident row over
\* all runs, also when two runs are less than one minute apart and the later
\* run re-reads the threats the earlier run persisted (no store failure).
C29_OneIncidentPerThreat ==
    faults = 0 =>
        \A t \in 1..Len(threatsTable) : Cardinality(IncidentsOf(t)) <= 1


\* ------------------------------------------------------------------------
\* Claims about alerting in a scheduled scan
\* ------------------------------------------------------------------------
\* C30: in a scheduled scan with alert_on_high_severity switched on, every
\* returned threat of severity High or Critical is passed to handleAlerts:
\* no Critical threat is left without an alert while High threats are
\* alerted.
C30_HighAndCriticalAlerted ==
    (scanPc = "done" /\ config.alert_on_high_severity) =>
        \A i \in 1..Len(scanAnalyzed) :
            scanAnalyzed[i].severity \in { "High", "Critical" } =>
                \E a \in 1..Len(alerted) : alerted[a] = scanAnalyzed[i]

====
